---- MODULE Spec2Model ----
(***************************************************************************)
(* Mail Receptionist: the match-and-act pipeline.                          *)
(*                                                                         *)
(*   ml.categorize        the similarity classifier over the unseen mails  *)
(*   utils.filter_mails   the tag / move / auto-response action engine     *)
(*                                                                         *)
(* Embedding vectors are pairs of integers in tenths, so that a unit       *)
(* vector is e.g. <<6, 8>> (0.6, 0.8) and an inner product is an integer   *)
(* in hundredths.  The threshold setting is an integer percentage; the     *)
(* code divides it by 100, the model keeps similarities in hundredths, so  *)
(* "sim > threshold" is the same comparison on both sides.                 *)
(* A string (subject, tag) is a sequence of one-character strings.         *)
(***************************************************************************)
EXTENDS Integers, Sequences, FiniteSets, TLC

VARIABLES
    conf,            \* the configuration read by read_config()
    store,           \* the IMAP account: folder name -> sequence of messages
    uidnext,         \* the IMAP account: folder name -> next UID to assign
    inbox_exists,    \* account.folder.exists(inbox_folder)
    builtin,         \* the contents of builtin-model_ex.npy / builtin-model_negex.npy
    cpc,             \* categorize: position ("idle", "loop", "done", "error")
    ci,              \* categorize: loop index i (1-based)
    cat_mails,       \* categorize: the fetched unseen inbox mails
    embs,            \* categorize: embs_ex, embs_negex, embs_mails
    filtered_mails,  \* categorize: the list being returned / filter_mails: its argument
    cmps,            \* history: per candidate, the similarities computed (pos, neg)
    fpc,             \* filter_mails: position
    fi,              \* filter_mails: loop index (1-based)
    sent,            \* the mail sender: the auto-responses sent so far
    calls,           \* history: the store / sender calls issued by filter_mails
    prov,            \* folder provisioning: the account's folders, the store's
                     \* creation policy, _GLOBAL_CONFIG, the configuration file,
                     \* and the history of _create_folders_if_not_exist calls
    batch,           \* the driver (launch_cli / launch_gui): position, password
                     \* buffer, local account, live sessions, pending exception
    norm,            \* parse_to_normalized_text: the message and the value returned
    chk              \* _check_settings: the settings list and the error list

vars == <<conf, store, uidnext, inbox_exists, builtin, cpc, ci, cat_mails, embs,
          filtered_mails, cmps, fpc, fi, sent, calls, prov, batch, norm, chk>>

catVars == <<cpc, ci, cat_mails, embs, filtered_mails, cmps>>
fmVars == <<fpc, fi, sent, calls>>
envVars == <<conf, inbox_exists, builtin, prov, batch, norm, chk>>

\* The provisioning and driver state while only categorize or filter_mails is
\* under study: a connected account whose folders need no provisioning.
NoProv == [exists |-> {}, policy |-> "none", mem |-> <<>>, disk |-> <<>>,
           internal |-> TRUE, hist |-> <<>>]
NoBatch == [driver |-> "none", pc |-> "off", passwd |-> <<>>, account |-> TRUE,
            live |-> 1, exc |-> "none", surfaced |-> "none", k |-> 1,
            paths |-> <<>>, runs |-> 1, settings_ok |-> TRUE, active |-> FALSE]
NoChk == [pc |-> "off", gui |-> FALSE, settings |-> <<>>, error_list |-> <<>>,
          raised |-> FALSE]
NoNorm == [pc |-> "off", message |-> [text |-> <<>>, html |-> <<>>],
           txt |-> [is_none |-> TRUE, str |-> <<>>], warned |-> FALSE,
           cutoff_chars |-> [given |-> FALSE, n |-> 0],
           txt_mails |-> [raised |-> FALSE, is_none |-> TRUE, str |-> <<>>]]

-----------------------------------------------------------------------------
(* Bounds of the model *)

MaxMails == 2
MaxEx == 1
MaxBuiltin == 1

-----------------------------------------------------------------------------
(* Folders and messages *)

INBOX == "INBOX"
EXAMPLES == "Examples"
NEGEXAMPLES == "NegExamples"
FILTERED == "Filtered"

Folders == {INBOX, EXAMPLES, NEGEXAMPLES, FILTERED}

SEEN == "SEEN"
ANSWERED == "ANSWERED"

\* The candidate vectors, the mailbox exemplar vectors and the built-in vectors
\* (tenths): all of Euclidean norm 1.
CandVecs == {<<10, 0>>, <<6, 8>>}
ExVecs == {<<6, 8>>, <<0, 10>>}
BuiltinExVec == <<6, 8>>
BuiltinNegVec == <<0, 10>>

\* The threshold settings (percent) the model draws from: both ends of the
\* slider's range [0, 100] and three values inside.
Thresholds == {0, 55, 60, 80, 100}

\* A message: its UID in its folder, its Message-ID (mid), its subject and
\* whether it has a Subject header at all, its date, its sender, its flags and
\* the embedding of its text.  Date and sender are those of the Message-ID.
Msg(uid, mid, subject, hdr, flags, vec) ==
    [uid |-> uid, mid |-> mid, subject |-> subject, hdr |-> hdr, date |-> mid,
     from |-> mid, flags |-> flags, vec |-> vec]

\* All sequences over S of length 0..n
SeqsUpTo(S, n) == UNION {[1..k -> S] : k \in 0..n}

-----------------------------------------------------------------------------
(* ml.categorize *)

RECURSIVE InnerFrom(_, _, _)
InnerFrom(a, b, d) ==
    IF d > Len(a) THEN 0 ELSE a[d] * b[d] + InnerFrom(a, b, d + 1)

\* np.inner(a, b), in hundredths
Inner(a, b) == InnerFrom(a, b, 1)

\* threshold = float(int(threshold)/100), in hundredths
Threshold == conf.threshold

\* _fetch_mails: mark_seen=False, so the store is left alone
FetchMails(folder, only_unseen_mails) ==
    IF only_unseen_mails
    THEN SelectSeq(store[folder], LAMBDA m : SEEN \notin m.flags)
    ELSE store[folder]

\* _USE_MODEL(texts): one vector per text, same order
UseModel(mails) == [k \in 1..Len(mails) |-> mails[k].vec]

PosExceedsGE(sim, t) == sim >= t

\* A bug: the comparison is turned around.
PosExceedsBelow(sim, t) == sim < t

\* "if sim > threshold" on a positive example
PosExceeds(sim, t) == sim > t

NegExceedsNever(neg_sim, t) == FALSE

\* "if neg_sim > threshold" on a negative example
NegExceeds(neg_sim, t) == neg_sim > t

\* A bug: no break in the loop over the negative examples.
NegScanNoBreak(c, negex, t, k) ==
    [matches_neg_ex |-> \E j \in k..Len(negex) : NegExceeds(Inner(c, negex[j]), t),
     n |-> Len(negex)]

\* for k in range(len(embs_negex)): ... break at the first negative above the
\* threshold.  Returns matches_neg_ex and the number of similarities computed.
RECURSIVE NegScan(_, _, _, _)
NegScan(c, negex, t, k) ==
    IF k > Len(negex) THEN [matches_neg_ex |-> FALSE, n |-> Len(negex)]
    ELSE IF NegExceeds(Inner(c, negex[k]), t)
         THEN [matches_neg_ex |-> TRUE, n |-> k]
         ELSE NegScan(c, negex, t, k + 1)

\* A bug: no break after the first positive above the threshold.
RECURSIVE PosScanNoBreak(_, _, _, _, _, _)
PosScanNoBreak(mail, c, ex, negex, t, j) ==
    IF j > Len(ex) THEN [app |-> <<>>, pos |-> Len(ex), neg |-> 0]
    ELSE LET rest == PosScanNoBreak(mail, c, ex, negex, t, j + 1) IN
         IF PosExceeds(Inner(c, ex[j]), t)
         THEN LET r == NegScan(c, negex, t, 1) IN
              [app |-> (IF r.matches_neg_ex THEN <<>> ELSE <<mail>>) \o rest.app,
               pos |-> rest.pos, neg |-> r.n + rest.neg]
         ELSE rest

\* A bug: the negative examples are consulted before the positive ones.
RECURSIVE PosScanNegFirst(_, _, _, _, _, _)
PosScanNegFirst(mail, c, ex, negex, t, j) ==
    LET r == NegScan(c, negex, t, 1) IN
    IF j > Len(ex) THEN [app |-> <<>>, pos |-> Len(ex), neg |-> r.n]
    ELSE IF PosExceeds(Inner(c, ex[j]), t)
         THEN [app |-> IF r.matches_neg_ex THEN <<>> ELSE <<mail>>,
               pos |-> j, neg |-> r.n]
         ELSE PosScanNegFirst(mail, c, ex, negex, t, j + 1)

\* A bug: the loop over the negative examples starts at the index of the
\* positive example that matched.
RECURSIVE PosScanNegFromJ(_, _, _, _, _, _)
PosScanNegFromJ(mail, c, ex, negex, t, j) ==
    IF j > Len(ex) THEN [app |-> <<>>, pos |-> Len(ex), neg |-> 0]
    ELSE IF PosExceeds(Inner(c, ex[j]), t)
         THEN LET r == NegScan(c, negex, t, j) IN
              [app |-> IF r.matches_neg_ex THEN <<>> ELSE <<mail>>,
               pos |-> j, neg |-> r.n]
         ELSE PosScanNegFromJ(mail, c, ex, negex, t, j + 1)

\* for j in range(len(embs_ex)): ... the body of the loop over one unseen mail.
\* Returns what is appended to filtered_mails for this mail and the number of
\* positive and negative similarities computed.
RECURSIVE PosScan(_, _, _, _, _, _)
PosScan(mail, c, ex, negex, t, j) ==
    IF j > Len(ex) THEN [app |-> <<>>, pos |-> Len(ex), neg |-> 0]
    ELSE IF PosExceeds(Inner(c, ex[j]), t)
         THEN LET r == NegScan(c, negex, t, 1) IN
              [app |-> IF r.matches_neg_ex THEN <<>> ELSE <<mail>>,
               pos |-> j, neg |-> r.n]
         ELSE PosScan(mail, c, ex, negex, t, j + 1)

\* get_builtin_embs()
GetBuiltinEmbs == builtin

\* "if not examples and not use_builtin_embs": the condition of the fail-fast
NoData(examples, use_builtin_embs) == examples = <<>> /\ ~use_builtin_embs

\* categorize up to the classification loop: read the settings, fetch the
\* examples and the unseen mails, fail fast without data, build the embeddings.
CatStart ==
    /\ cpc = "idle"
    /\ IF ~inbox_exists
       THEN \* get_mails raises InvalidSettingsError
            /\ cpc' = "error"
            /\ UNCHANGED <<ci, cat_mails, embs, filtered_mails, cmps>>
       ELSE LET examples == FetchMails(EXAMPLES, FALSE)
                neg_examples == FetchMails(NEGEXAMPLES, FALSE)
                compare_mails == FetchMails(INBOX, TRUE)
                bi == IF conf.use_builtin THEN GetBuiltinEmbs
                      ELSE [ex |-> <<>>, negex |-> <<>>]
            IN IF NoData(examples, conf.use_builtin)
               THEN /\ cpc' = "error"
                    /\ UNCHANGED <<ci, cat_mails, embs, filtered_mails, cmps>>
               ELSE /\ cpc' = "loop"
                    /\ ci' = 1
                    /\ cat_mails' = compare_mails
                    /\ embs' = [ex |-> IF examples # <<>>
                                       THEN UseModel(examples) \o bi.ex
                                       ELSE bi.ex,
                                negex |-> IF neg_examples # <<>>
                                          THEN UseModel(neg_examples) \o bi.negex
                                          ELSE bi.negex,
                                mails |-> UseModel(compare_mails)]
                    /\ filtered_mails' = <<>>
                    /\ cmps' = <<>>
    /\ UNCHANGED <<envVars, store, uidnext, fmVars>>

\* One iteration of "for i in range(len(embs_mails))"
CatClassify ==
    /\ cpc = "loop"
    /\ ci <= Len(embs.mails)
    /\ LET r == PosScan(cat_mails[ci], embs.mails[ci], embs.ex, embs.negex,
                        Threshold, 1)
       IN /\ filtered_mails' = filtered_mails \o r.app
          /\ cmps' = Append(cmps, [pos |-> r.pos, neg |-> r.neg])
    /\ ci' = ci + 1
    /\ UNCHANGED <<cpc, cat_mails, embs, envVars, store, uidnext, fmVars>>

\* The loop is over: return filtered_mails
CatReturn ==
    /\ cpc = "loop"
    /\ ci > Len(embs.mails)
    /\ cpc' = "done"
    /\ UNCHANGED <<ci, cat_mails, embs, filtered_mails, cmps, envVars, store,
                   uidnext, fmVars>>

-----------------------------------------------------------------------------
(* The specification of one call of categorize *)

NoSubject == <<>>

ExampleMsgs(S) ==
    {[k \in 1..Len(vs) |-> Msg(k, k, NoSubject, TRUE, {SEEN}, vs[k])] :
        vs \in SeqsUpTo(S, MaxEx)}

\* An inbox mail is unseen with either candidate vector, or already seen.
InboxKinds == {[vec |-> v, flags |-> {}] : v \in CandVecs}
                  \cup {[vec |-> <<6, 8>>, flags |-> {SEEN}]}

InboxMsgs ==
    {[k \in 1..Len(ks) |-> Msg(k, k, NoSubject, TRUE, ks[k].flags, ks[k].vec)] :
        ks \in SeqsUpTo(InboxKinds, MaxMails)}

BuiltinFiles ==
    {[ex |-> [k \in 1..n |-> BuiltinExVec], negex |-> [k \in 1..m |-> BuiltinNegVec]] :
        n \in 0..MaxBuiltin, m \in 0..MaxBuiltin}

InitCategorize ==
    /\ conf \in [threshold : Thresholds, use_builtin : BOOLEAN,
                 filter_tag : {<<>>}, filtered_folder : {FILTERED},
                 autoresponse : {""}]
    /\ \E ib \in InboxMsgs, ex \in ExampleMsgs(ExVecs), nx \in ExampleMsgs(ExVecs) :
          store = [f \in Folders |->
                      CASE f = INBOX -> ib
                        [] f = EXAMPLES -> ex
                        [] f = NEGEXAMPLES -> nx
                        [] OTHER -> <<>>]
    /\ uidnext = [f \in Folders |-> Len(store[f]) + 1]
    /\ inbox_exists \in BOOLEAN
    /\ builtin \in BuiltinFiles
    /\ cpc = "idle"
    /\ ci = 1
    /\ cat_mails = <<>>
    /\ embs = [ex |-> <<>>, negex |-> <<>>, mails |-> <<>>]
    /\ filtered_mails = <<>>
    /\ cmps = <<>>
    /\ fpc = "idle"
    /\ fi = 1
    /\ sent = <<>>
    /\ calls = <<>>
    /\ prov = NoProv
    /\ batch = NoBatch
    /\ norm = NoNorm
    /\ chk = NoChk

NextCategorize == CatStart \/ CatClassify \/ CatReturn

SpecCategorize == InitCategorize /\ [][NextCategorize]_vars

-----------------------------------------------------------------------------
(* utils.filter_mails *)

\* '[' + filter_tag + '] '
TagPrefix(filter_tag) == <<"[">> \o filter_tag \o <<"]", " ">>

\* str.startswith
StartsWith(s, p) == Len(s) >= Len(p) /\ SubSeq(s, 1, Len(p)) = p

NewSubjectAlwaysPrepend(filter_tag, subject) == TagPrefix(filter_tag) \o subject

\* The Subject header of the clone
NewSubject(filter_tag, subject) ==
    IF ~StartsWith(subject, TagPrefix(filter_tag))
    THEN TagPrefix(filter_tag) \o subject
    ELSE subject

DestFolderAlwaysInbox == INBOX

\* folder=filtered_folder if filtered_folder else inbox_folder
DestFolder == IF conf.filtered_folder # "" THEN conf.filtered_folder ELSE INBOX

\* A bug: the clone is appended without flags.
CloneFlagsUnseen == {}

\* flag_set of the appended clone
CloneFlags == IF conf.autoresponse # "" THEN {SEEN, ANSWERED} ELSE {SEEN}

AfterLoopAnyTime(i, mails) == TRUE

\* The statement after "for msg in filtered_mails" is reached when the loop is over
AfterLoop(i, mails) == i > Len(mails)

\* A bug: the UIDs of all candidates are taken, matched or not.
UidsOfCandidates(mails) == {cat_mails[k].uid : k \in 1..Len(cat_mails)}

\* [msg.uid for msg in filtered_mails]
Uids(mails) == {mails[k].uid : k \in 1..Len(mails)}

Call(op, folder, uids, ok) == [op |-> op, folder |-> folder, uids |-> uids, ok |-> ok]

\* _send_auto_response_mail ends in one of three ways: the mail is sent and the
\* call returns; login or send_message fails and MailServerError is raised; the
\* mail is sent and the s.quit() of the finally clause raises.
SendOutcomes == {"sent", "not_sent", "sent_quit_raises"}

\* fp.read() of the auto-response file: the template text
ReadTemplate == "auto-response text"

\* A bug: the reply quotes the subject of the tagged clone.
ReplyWithCloneSubject(msg) ==
    [to |-> msg.from,
     subject |-> <<"Re: ">> \o TagPrefix(conf.filter_tag) \o msg.subject,
     body |-> ReadTemplate, mid |-> msg.mid]

\* The reply: To the sender, Subject 'Re: ' + the subject, the template as content
Reply(msg) ==
    [to |-> msg.from, subject |-> <<"Re: ">> \o msg.subject,
     body |-> ReadTemplate, mid |-> msg.mid]

SentAfter(msg, outcome) == IF outcome = "not_sent" THEN sent ELSE Append(sent, Reply(msg))

\* A bug: an empty UID list is taken for every message of the folder.
DeletedAllIfNone(q, uids) ==
    IF uids = {} THEN <<>> ELSE SelectSeq(q, LAMBDA m : m.uid \notin uids)

\* account.delete(uids) on the selected folder
Deleted(q, uids) == SelectSeq(q, LAMBDA m : m.uid \notin uids)

\* account.flag(uids, flag, True) on the selected folder
Flagged(q, uids, flag) ==
    [k \in 1..Len(q) |->
        IF q[k].uid \in uids THEN [q[k] EXCEPT !.flags = @ \cup {flag}] ELSE q[k]]

\* The messages of q with a UID of uids, renumbered from UID n on
RECURSIVE Renumbered(_, _)
Renumbered(q, n) ==
    IF q = <<>> THEN <<>>
    ELSE <<[Head(q) EXCEPT !.uid = n]>> \o Renumbered(Tail(q), n + 1)

\* A bug: the tag branch is taken whatever the filter tag setting is.
FmStartAlwaysTag ==
    /\ fpc = "idle"
    /\ cpc = "done"
    /\ fpc' = "tag"
    /\ fi' = 1
    /\ UNCHANGED <<calls, sent, store, uidnext, envVars, catVars>>

\* filter_mails reads the settings and takes the tag branch or the move branch;
\* the move branch begins with account.folder.set(inbox_folder).
FmStart ==
    /\ fpc = "idle"
    /\ cpc = "done"
    /\ IF conf.filter_tag # <<>>
       THEN /\ fpc' = "tag"
            /\ fi' = 1
            /\ UNCHANGED calls
       ELSE \E ok \in BOOLEAN :
               /\ calls' = Append(calls, Call("set", INBOX, {}, ok))
               /\ fi' = 1
               /\ fpc' = IF ~ok THEN "failed"
                         ELSE IF conf.autoresponse # "" THEN "move_send"
                         ELSE "move_seen"
    /\ UNCHANGED <<sent, store, uidnext, envVars, catVars>>

\* Tag mode, one message: clone it, rewrite the subject, account.append
FmAppend ==
    /\ fpc = "tag"
    /\ fi <= Len(filtered_mails)
    /\ LET msg == filtered_mails[fi]
           dest == DestFolder
       IN IF ~StartsWith(msg.subject, TagPrefix(conf.filter_tag)) /\ ~msg.hdr
          THEN \* replace_header raises KeyError: there is no Subject header
               /\ fpc' = "failed"
               /\ UNCHANGED <<fi, calls, store, uidnext>>
          ELSE \E ok \in BOOLEAN :
                  /\ calls' = Append(calls, Call("append", dest, {msg.uid}, ok))
                  /\ IF ok
                     THEN /\ store' = [store EXCEPT ![dest] =
                                 Append(@, [msg EXCEPT
                                     !.uid = uidnext[dest],
                                     !.subject = NewSubject(conf.filter_tag, msg.subject),
                                     !.flags = CloneFlags])]
                          /\ uidnext' = [uidnext EXCEPT ![dest] = @ + 1]
                          /\ IF conf.autoresponse # ""
                             THEN fpc' = "tag_send" /\ fi' = fi
                             ELSE fpc' = "tag" /\ fi' = fi + 1
                     ELSE /\ fpc' = "failed"
                          /\ UNCHANGED <<fi, store, uidnext>>
    /\ UNCHANGED <<sent, envVars, catVars>>

\* Tag mode, one message: _send_auto_response_mail after the append
FmSendTag ==
    /\ fpc = "tag_send"
    /\ \E outcome \in SendOutcomes :
          /\ sent' = SentAfter(filtered_mails[fi], outcome)
          /\ calls' = Append(calls, Call("send", "", {filtered_mails[fi].uid},
                                         outcome = "sent"))
          /\ IF outcome = "sent"
             THEN fpc' = "tag" /\ fi' = fi + 1
             ELSE fpc' = "failed" /\ fi' = fi
    /\ UNCHANGED <<store, uidnext, envVars, catVars>>

\* Tag mode, after the loop: account.folder.set(inbox_folder); account.delete(uids)
FmDelete ==
    /\ fpc = "tag"
    /\ AfterLoop(fi, filtered_mails)
    /\ \E ok \in BOOLEAN :
          /\ calls' = Append(calls, Call("delete", INBOX, Uids(filtered_mails), ok))
          /\ IF ok
             THEN /\ store' = [store EXCEPT ![INBOX] = Deleted(@, Uids(filtered_mails))]
                  /\ fpc' = "done"
             ELSE /\ fpc' = "failed"
                  /\ UNCHANGED store
    /\ UNCHANGED <<fi, sent, uidnext, envVars, catVars>>

\* Move mode, one message: _send_auto_response_mail
FmSendMove ==
    /\ fpc = "move_send"
    /\ fi <= Len(filtered_mails)
    /\ \E outcome \in SendOutcomes :
          /\ sent' = SentAfter(filtered_mails[fi], outcome)
          /\ calls' = Append(calls, Call("send", "", {filtered_mails[fi].uid},
                                         outcome = "sent"))
          /\ IF outcome = "sent"
             THEN fpc' = "move_send" /\ fi' = fi + 1
             ELSE fpc' = "failed" /\ fi' = fi
    /\ UNCHANGED <<store, uidnext, envVars, catVars>>

\* Move mode, after the sends: account.flag(uids, [ANSWERED], True)
FmFlag ==
    /\ fpc = "move_send"
    /\ fi > Len(filtered_mails)
    /\ \E ok \in BOOLEAN :
          /\ calls' = Append(calls, Call("flag", INBOX, Uids(filtered_mails), ok))
          /\ IF ok
             THEN /\ store' = [store EXCEPT ![INBOX] =
                                  Flagged(@, Uids(filtered_mails), ANSWERED)]
                  /\ fpc' = "move_seen"
             ELSE /\ fpc' = "failed"
                  /\ UNCHANGED store
    /\ UNCHANGED <<fi, sent, uidnext, envVars, catVars>>

\* Move mode: account.seen(uids, True)
FmSeen ==
    /\ fpc = "move_seen"
    /\ \E ok \in BOOLEAN :
          /\ calls' = Append(calls, Call("seen", INBOX, Uids(filtered_mails), ok))
          /\ IF ok
             THEN /\ store' = [store EXCEPT ![INBOX] =
                                  Flagged(@, Uids(filtered_mails), SEEN)]
                  /\ fpc' = "move_move"
             ELSE /\ fpc' = "failed"
                  /\ UNCHANGED store
    /\ UNCHANGED <<fi, sent, uidnext, envVars, catVars>>

\* Move mode: account.move(uids, filtered_folder)
FmMove ==
    /\ fpc = "move_move"
    /\ \E ok \in BOOLEAN :
          /\ calls' = Append(calls, Call("move", conf.filtered_folder,
                                         Uids(filtered_mails), ok))
          /\ IF ok
             THEN LET moved == SelectSeq(store[INBOX],
                                         LAMBDA m : m.uid \in Uids(filtered_mails))
                      dest == conf.filtered_folder
                  IN /\ store' = [store EXCEPT
                            ![INBOX] = Deleted(@, Uids(filtered_mails)),
                            ![dest] = @ \o Renumbered(moved, uidnext[dest])]
                     /\ uidnext' = [uidnext EXCEPT ![dest] = @ + Len(moved)]
                     /\ fpc' = "done"
             ELSE /\ fpc' = "failed"
                  /\ UNCHANGED <<store, uidnext>>
    /\ UNCHANGED <<fi, sent, envVars, catVars>>

-----------------------------------------------------------------------------
(* The specification of one call of filter_mails, on the list categorize returned *)

\* The filter tags the model draws from
Tags == {<<"V">>, <<"V", "A", "C">>}

\* The subjects of the inbox mails: plain, already tagged with one of the tags,
\* and one that only looks tagged (no blank after the bracket).
Subjects == {<<"x">>, <<"[", "V", "]">>} \cup {TagPrefix(t) \o <<"x">> : t \in Tags}

\* An inbox mail has a subject or no Subject header at all, and is unseen and
\* matched by the classifier, unseen and unmatched, or already seen.
FilterKinds ==
    {[subject |-> sj, hdr |-> TRUE, matched |-> b, flags |-> {}] :
        sj \in Subjects, b \in BOOLEAN}
    \cup {[subject |-> <<>>, hdr |-> FALSE, matched |-> b, flags |-> {}] : b \in BOOLEAN}
    \cup {[subject |-> <<"x">>, hdr |-> TRUE, matched |-> FALSE, flags |-> {SEEN}]}

\* The settings _check_settings accepts: the tag or the filtered folder is set.
FilterConfs ==
    {c \in [threshold : {55}, use_builtin : {TRUE}, filter_tag : {<<>>} \cup Tags,
            filtered_folder : {"", FILTERED}, autoresponse : {"", "auto-response.txt"}] :
        c.filter_tag # <<>> \/ c.filtered_folder # ""}

InitFilter ==
    /\ conf \in FilterConfs
    /\ \E ks \in SeqsUpTo(FilterKinds, MaxMails) :
          LET ib == [k \in 1..Len(ks) |->
                        Msg(k, k, ks[k].subject, ks[k].hdr, ks[k].flags, <<6, 8>>)]
              unseen == SelectSeq(ib, LAMBDA m : SEEN \notin m.flags)
          IN /\ store = [f \in Folders |-> IF f = INBOX THEN ib ELSE <<>>]
             /\ cat_mails = unseen
             /\ filtered_mails = SelectSeq(unseen, LAMBDA m : ks[m.uid].matched)
             /\ cmps = [k \in 1..Len(unseen) |-> [pos |-> 1, neg |-> 0]]
             /\ embs = [ex |-> <<BuiltinExVec>>, negex |-> <<>>,
                        mails |-> UseModel(unseen)]
             /\ ci = Len(unseen) + 1
    /\ uidnext = [f \in Folders |-> Len(store[f]) + 1]
    /\ inbox_exists = TRUE
    /\ builtin = [ex |-> <<BuiltinExVec>>, negex |-> <<>>]
    /\ cpc = "done"
    /\ fpc = "idle"
    /\ fi = 1
    /\ sent = <<>>
    /\ calls = <<>>
    /\ prov = NoProv
    /\ batch = NoBatch
    /\ norm = NoNorm
    /\ chk = NoChk

NextFilter ==
    \/ FmStart \/ FmAppend \/ FmSendTag \/ FmDelete
    \/ FmSendMove \/ FmFlag \/ FmSeen \/ FmMove

SpecFilter == InitFilter /\ [][NextFilter]_vars

-----------------------------------------------------------------------------
(* Properties of categorize *)

Range(q) == {q[k] : k \in 1..Len(q)}

\* Some positive / negative exemplar is more similar to v than the threshold.
SomePositiveAbove(v) == \E j \in 1..Len(embs.ex) : Inner(v, embs.ex[j]) > conf.threshold
SomeNegativeAbove(v) == \E k \in 1..Len(embs.negex) : Inner(v, embs.negex[k]) > conf.threshold

\* C1: with a single candidate a, a single positive exemplar b and no negative
\* exemplar, the candidate is returned if and only if inner(a, b) is strictly
\* greater than the threshold; a similarity equal to the threshold does not match.
C1_SinglePairStrict ==
    (cpc = "done" /\ Len(embs.mails) = 1 /\ Len(embs.ex) = 1 /\ embs.negex = <<>>)
        => IF Inner(embs.mails[1], embs.ex[1]) > conf.threshold
           THEN filtered_mails = <<cat_mails[1]>>
           ELSE filtered_mails = <<>>

\* C1 witness: the similarity equals the threshold and the candidate is not returned.
C1_Witness ==
    /\ cpc = "done" /\ Len(embs.mails) = 1 /\ Len(embs.ex) = 1 /\ embs.negex = <<>>
    /\ Inner(embs.mails[1], embs.ex[1]) = conf.threshold
    /\ filtered_mails = <<>>

\* C2: a candidate with at least one negative exemplar above the threshold is
\* never in the returned list, whatever its similarity to the positives.
C2_NegativeOverride ==
    \A i \in 1..Len(cmps) :
        SomeNegativeAbove(embs.mails[i]) => cat_mails[i] \notin Range(filtered_mails)

\* C2 witness: a classified candidate above the threshold for a positive and for
\* a negative exemplar, and not returned.
C2_Witness ==
    /\ cpc = "done"
    /\ \E i \in 1..Len(cmps) :
          /\ SomePositiveAbove(embs.mails[i])
          /\ SomeNegativeAbove(embs.mails[i])
          /\ cat_mails[i] \notin Range(filtered_mails)

\* C7: a candidate with no positive exemplar above the threshold is not returned
\* and no similarity between it and a negative exemplar is computed.
C7_NoPositiveNoNegativeScan ==
    \A i \in 1..Len(cmps) :
        ~SomePositiveAbove(embs.mails[i])
            => cat_mails[i] \notin Range(filtered_mails) /\ cmps[i].neg = 0

\* C7 witness: such a candidate, with a negative exemplar that would have been
\* above the threshold had it been compared.
C7_Witness ==
    /\ cpc = "done"
    /\ \E i \in 1..Len(cmps) :
          /\ embs.ex # <<>>
          /\ ~SomePositiveAbove(embs.mails[i])
          /\ SomeNegativeAbove(embs.mails[i])
          /\ cmps[i].neg = 0

\* C8: one verdict per candidate, and the returned list is the fetched unseen
\* inbox mails in fetch order restricted to the matched ones, each exactly once.
C8_OneVerdictInOrder ==
    cpc = "done" =>
        /\ Len(cmps) = Len(cat_mails)
        /\ cat_mails = SelectSeq(store[INBOX], LAMBDA m : SEEN \notin m.flags)
        /\ filtered_mails =
              SelectSeq(cat_mails,
                        LAMBDA m : SomePositiveAbove(m.vec) /\ ~SomeNegativeAbove(m.vec))

\* C8 witness: a returned candidate that two positive exemplars match, next to a
\* candidate that is not returned.
C8_Witness ==
    /\ cpc = "done"
    /\ Len(cat_mails) = 2
    /\ Len(filtered_mails) = 1
    /\ \E i \in 1..Len(cat_mails) :
          /\ cat_mails[i] \in Range(filtered_mails)
          /\ Cardinality({j \in 1..Len(embs.ex) :
                             Inner(embs.mails[i], embs.ex[j]) > conf.threshold}) = 2

\* C9: whenever the assembled positive exemplar list is empty, categorize fails
\* fast instead of running the classifier and returning an empty list.
C9_EmptyPositivesFailFast ==
    cpc \in {"loop", "done"} => embs.ex # <<>>

-----------------------------------------------------------------------------
(* Properties of filter_mails *)

TagMode == conf.filter_tag # <<>>
AutoResponse == conf.autoresponse # ""

\* The original of a matched message is still in the inbox.
OriginalInInbox(m) == \E k \in 1..Len(store[INBOX]) : store[INBOX][k].uid = m.uid

\* The positions in folder f of the copies of m (same Message-ID) other than
\* the original itself.
CopiesIn(m, f) ==
    {k \in 1..Len(store[f]) :
        store[f][k].mid = m.mid /\ ~(f = INBOX /\ store[f][k].uid = m.uid)}

\* An auto-response for m has gone out.
ResponseSent(m) == \E k \in 1..Len(sent) : sent[k].mid = m.mid

\* The call op for m (or for the uid set containing m) returned normally.
CallReturned(op, m) ==
    \E k \in 1..Len(calls) :
        calls[k].op = op /\ m.uid \in calls[k].uids /\ calls[k].ok

\* C3: no message of the store carries ANSWERED unless the auto-response for
\* that very message has been sent before: the send precedes the flag.
C3_AnsweredOnlyAfterSend ==
    \A f \in Folders : \A k \in 1..Len(store[f]) :
        ANSWERED \in store[f][k].flags
            => \E j \in 1..Len(sent) : sent[j].mid = store[f][k].mid

\* C4: an original is deleted (tag mode) or moved (move mode) only after its
\* own clone append (tag mode) and its own auto-response send (when configured)
\* have completed successfully.
C4_RemoveOnlyAfterCompletion ==
    \A k \in 1..Len(filtered_mails) :
        LET m == filtered_mails[k] IN
        ~OriginalInInbox(m) =>
            /\ TagMode =>
                  /\ CallReturned("append", m)
                  /\ CopiesIn(m, IF conf.filtered_folder # "" THEN conf.filtered_folder
                                 ELSE INBOX) # {}
            /\ AutoResponse => CallReturned("send", m) /\ ResponseSent(m)

\* C4 witness: a tag-mode run with auto-response over two matched messages has
\* removed both originals.
C4_Witness ==
    /\ fpc = "done" /\ TagMode /\ AutoResponse
    /\ Len(filtered_mails) = 2
    /\ \A k \in 1..Len(filtered_mails) : ~OriginalInInbox(filtered_mails[k])

\* The matched message m went through the whole action: copy in the destination
\* folder, auto-response sent when configured, original out of the inbox.
FullyProcessed(m) ==
    /\ ~OriginalInInbox(m)
    /\ CopiesIn(m, IF conf.filtered_folder # "" THEN conf.filtered_folder ELSE INBOX) # {}
    /\ AutoResponse => ResponseSent(m)

\* Nothing happened to the matched message m.
Untouched(m) ==
    /\ \E k \in 1..Len(store[INBOX]) :
          store[INBOX][k].uid = m.uid /\ store[INBOX][k].flags = m.flags
    /\ \A f \in Folders : CopiesIn(m, f) = {}
    /\ ~ResponseSent(m)

\* C5: when filter_mails ends, normally or by a failure, every matched message
\* is either fully processed or completely untouched.
C5_AllOrNothingPerMessage ==
    fpc \in {"done", "failed"} =>
        \A k \in 1..Len(filtered_mails) :
            FullyProcessed(filtered_mails[k]) \/ Untouched(filtered_mails[k])

\* C6: the clone's subject is the original subject when that already starts
\* with "[tag] ", and "[tag] " + subject otherwise; rewriting the clone's
\* subject again changes nothing.
C6_IdempotentTagging ==
    TagMode =>
        \A i \in 1..Len(filtered_mails) : \A f \in Folders :
            \A k \in CopiesIn(filtered_mails[i], f) :
                LET p == <<"[">> \o conf.filter_tag \o <<"]", " ">>
                    o == filtered_mails[i].subject
                    c == store[f][k].subject
                IN /\ c = IF Len(o) >= Len(p) /\ SubSeq(o, 1, Len(p)) = p
                          THEN o ELSE p \o o
                   /\ NewSubject(conf.filter_tag, c) = c

\* C6 witness: the clone of an already tagged message, with the subject unchanged.
C6_Witness ==
    /\ TagMode
    /\ \E i \in 1..Len(filtered_mails) : \E f \in Folders :
          \E k \in CopiesIn(filtered_mails[i], f) :
              /\ filtered_mails[i].subject = <<"[", "V", "]", " ", "x">>
              /\ store[f][k].subject = <<"[", "V", "]", " ", "x">>

\* C10: after a tag-mode run that completes without error, every matched
\* message has exactly one clone, in the filtered folder when one is configured
\* and in the inbox otherwise, with the original's date and the SEEN flag; the
\* originals are gone from the inbox, removed by the one delete call, issued
\* after the last append.
C10_TagModeResult ==
    (TagMode /\ fpc = "done") =>
        LET dest == IF conf.filtered_folder # "" THEN conf.filtered_folder ELSE INBOX IN
        /\ \A i \in 1..Len(filtered_mails) :
              LET m == filtered_mails[i] IN
              /\ Cardinality(CopiesIn(m, dest)) = 1
              /\ \A f \in Folders \ {dest} : CopiesIn(m, f) = {}
              /\ \A k \in CopiesIn(m, dest) :
                    store[dest][k].date = m.date /\ SEEN \in store[dest][k].flags
              /\ ~OriginalInInbox(m)
        /\ Cardinality({j \in 1..Len(calls) : calls[j].op = "delete"}) = 1
        /\ Cardinality({j \in 1..Len(calls) : calls[j].op = "append"}) = Len(filtered_mails)
        /\ calls[Len(calls)] = [op |-> "delete", folder |-> INBOX,
                                uids |-> {filtered_mails[i].uid : i \in 1..Len(filtered_mails)},
                                ok |-> TRUE]

\* C10 witness: a completed tag-mode run without filtered folder over two
\* matched messages, next to a message that was not matched.
C10_Witness ==
    /\ TagMode /\ fpc = "done" /\ conf.filtered_folder = ""
    /\ Len(filtered_mails) = 2
    /\ Len(store[INBOX]) = 2
    /\ \A k \in 1..2 : SEEN \in store[INBOX][k].flags

\* The calls of operation op issued so far
CallsOf(op) == {j \in 1..Len(calls) : calls[j].op = op}

\* C11: filter_mails runs exactly one strategy.  With an empty tag no append and
\* no delete is issued, no subject changes, and a completed run has moved all
\* matched UIDs to the filtered folder by the one move call, issued last, after
\* the seen (and, with auto-response, the answered) mutation.  With a tag no
\* move call is issued.
C11_OneStrategy ==
    /\ TagMode => CallsOf("move") = {} /\ CallsOf("flag") = {} /\ CallsOf("seen") = {}
    /\ ~TagMode =>
          /\ CallsOf("append") = {} /\ CallsOf("delete") = {}
          /\ \A f \in Folders : \A k \in 1..Len(store[f]) : \A i \in 1..Len(cat_mails) :
                store[f][k].mid = cat_mails[i].mid
                    => store[f][k].subject = cat_mails[i].subject
          /\ Cardinality(CallsOf("move")) <= 1
          /\ fpc = "done" =>
                /\ calls[Len(calls)] =
                      [op |-> "move", folder |-> conf.filtered_folder,
                       uids |-> {filtered_mails[i].uid : i \in 1..Len(filtered_mails)},
                       ok |-> TRUE]
                /\ Cardinality(CallsOf("seen")) = 1
                /\ Cardinality(CallsOf("flag")) = IF AutoResponse THEN 1 ELSE 0
                /\ \A i \in 1..Len(filtered_mails) :
                      /\ ~OriginalInInbox(filtered_mails[i])
                      /\ \E k \in 1..Len(store[conf.filtered_folder]) :
                            LET x == store[conf.filtered_folder][k] IN
                            /\ x.mid = filtered_mails[i].mid
                            /\ SEEN \in x.flags
                            /\ AutoResponse => ANSWERED \in x.flags

\* C11 witness: a completed move-mode run with auto-response over two matched
\* messages.
C11_Witness ==
    /\ ~TagMode /\ AutoResponse /\ fpc = "done"
    /\ Len(filtered_mails) = 2
    /\ Len(store[FILTERED]) = 2

\* C12: with an auto-response template configured, a run that completes without
\* error has sent exactly one reply per matched message, to its sender, with the
\* subject "Re: " + the original subject and the template as body; without a
\* template no reply is ever sent.
C12_OneReplyPerMatch ==
    /\ ~AutoResponse => sent = <<>>
    /\ (AutoResponse /\ fpc = "done") =>
          /\ Len(sent) = Len(filtered_mails)
          /\ \A k \in 1..Len(sent) :
                /\ sent[k].to = filtered_mails[k].from
                /\ sent[k].subject = <<"Re: ">> \o filtered_mails[k].subject
                /\ sent[k].body = "auto-response text"

\* C12 witness: a completed tag-mode run with auto-response over two matched
\* messages, one of them already tagged.
C12_Witness ==
    /\ AutoResponse /\ TagMode /\ fpc = "done"
    /\ Len(sent) = 2
    /\ \E k \in 1..2 : sent[k].subject = <<"Re: ", "[", "V", "]", " ", "x">>

-----------------------------------------------------------------------------
(* utils._create_folders_if_not_exist, utils.write_config,
   utils.connect_to_account and the batch run of launch_cli / launch_gui *)

\* The longest folder path of a setting, in segments.
MaxSegs == 3
\* The number of processes / intervals a behaviour follows.
MaxRuns == 2

\* The settings provisioned by connect_to_account, in the order of its calls.
Keys == <<"folder for positive examples", "filtered folder",
          "folder for negative examples">>

\* Folder names are sequences of one-character strings.
Roots == <<"P", "F", "N">>
SegNames == <<"a", "b", "c", "d", "e">>

RECURSIVE PathOf(_, _)
\* The configured path with n segments below root, written with '/'.
PathOf(root, n) ==
    IF n = 1 THEN <<root>> ELSE PathOf(root, n - 1) \o <<"/", SegNames[n - 1]>>

RECURSIVE SplitAcc(_, _, _, _)
SplitAcc(path, sep, i, cur) ==
    IF i > Len(path) THEN <<cur>>
    ELSE IF path[i] = sep THEN <<cur>> \o SplitAcc(path, sep, i + 1, <<>>)
    ELSE SplitAcc(path, sep, i + 1, Append(cur, path[i]))

\* path.split(sep)
Split(path, sep) == SplitAcc(path, sep, 1, <<>>)

\* The store's answer to account.folder.create(name): which names it rejects
\* with MailboxFolderCreateError.  A store keeps one policy for a session.
Policies == {"none", "flat", "depth", "nosep", "all"}
Rejects(policy, name) ==
    CASE policy = "none" -> FALSE
      [] policy = "flat" -> \E i \in 1..Len(name) : name[i] = "/"
      [] policy = "depth" -> Cardinality({i \in 1..Len(name) : name[i] = "/"}) >= 2
      [] policy = "nosep" -> \E i \in 1..Len(name) : name[i] \in {"/", "|"}
      [] OTHER -> TRUE

\* prev_folder + sep + folder if prev_folder else folder, ignoring prev_folder
FolderNameNoParent(prev_folder, sep, folder) == folder

\* prev_folder + sep + folder if prev_folder else folder
FolderName(prev_folder, sep, folder) ==
    IF prev_folder # <<>> THEN prev_folder \o <<sep>> \o folder ELSE folder

FCall(op, name, ok) == [op |-> op, name |-> name, ok |-> ok]

RECURSIVE Walk(_, _, _, _, _, _, _)
\* The for loop of _create_folders_if_not_exist from segment i on.
Walk(segs, i, prev_folder, sep, ex, log, policy) ==
    IF i > Len(segs)
    THEN [prev_folder |-> prev_folder, sep |-> sep, exists |-> ex, log |-> log,
          raised |-> FALSE]
    ELSE
      LET n1 == FolderName(prev_folder, sep, segs[i])
          log1 == Append(log, FCall("exists", n1, n1 \in ex))
      IN IF n1 \in ex
         THEN Walk(segs, i + 1, n1, sep, ex, log1, policy)
         ELSE
           LET log2 == Append(log1, FCall("create", n1, ~Rejects(policy, n1)))
           IN IF ~Rejects(policy, n1)
              THEN Walk(segs, i + 1, n1, sep, ex \cup {n1}, log2, policy)
              ELSE
                \* except MailboxFolderCreateError: sep = '|'
                LET n2 == FolderName(prev_folder, "|", segs[i])
                    log3 == Append(log2, FCall("exists", n2, n2 \in ex))
                IN IF n2 \in ex
                   THEN Walk(segs, i + 1, n2, "|", ex, log3, policy)
                   ELSE
                     LET log4 == Append(log3,
                                   FCall("create", n2, ~Rejects(policy, n2)))
                     IN IF ~Rejects(policy, n2)
                        THEN Walk(segs, i + 1, n2, "|", ex \cup {n2}, log4, policy)
                        ELSE [prev_folder |-> prev_folder, sep |-> "|",
                              exists |-> ex, log |-> log4, raised |-> TRUE]

\* The walk of _create_folders_if_not_exist that writes the configuration
\* whatever separator it ended with.
WriteBackAlways(r) == ~r.raised

\* if sep == '|': the resolved path is written back.
WriteBack(r) == ~r.raised /\ r.sep = "|"

\* The exception classes caught by "except InvalidSettingsError or
\* MailServerError": the expression is InvalidSettingsError, whose subclass
\* MailServerError is.
ConfigErrors == {"InvalidSettingsError", "MailServerError"}

\* _securely_erase: overwrite every byte with zero, then delete them all.
SecurelyErase(passwd) ==
    LET zeroed == [k \in 1..Len(passwd) |-> 0]
    IN SubSeq(zeroed, Len(zeroed) + 1, Len(zeroed))

\* launch_cli: _check_settings(_update_from_config())
BatchCheck ==
    /\ batch.driver = "cli"
    /\ batch.pc = "check"
    /\ batch' = IF batch.settings_ok
                THEN [batch EXCEPT !.pc = "connect"]
                ELSE [batch EXCEPT !.pc = "handle", !.exc = "InvalidSettingsError"]
    /\ UNCHANGED <<conf, inbox_exists, builtin, chk, norm, prov, store, uidnext, catVars,
                   fmVars>>

\* connect_to_account up to account.folder.set(base_folder): the folder
\* settings are read, then the login succeeds or raises MailServerError, then
\* the base folder is selected.
Login ==
    /\ batch.pc = "connect"
    /\ \E outcome \in {"ok", "login_failed", "select_failed"} :
          batch' =
            CASE outcome = "ok" ->
                   [batch EXCEPT !.pc = "provision", !.k = 1, !.paths = prov.mem,
                                 !.live = @ + 1]
              [] outcome = "login_failed" ->
                   [batch EXCEPT !.pc = "handle", !.exc = "MailServerError"]
              [] OTHER ->
                   [batch EXCEPT !.pc = "handle", !.live = @ + 1,
                                 !.exc = "MailboxFolderSelectError"]
    /\ UNCHANGED <<conf, inbox_exists, builtin, chk, norm, prov, store, uidnext, catVars,
                   fmVars>>

\* One call _create_folders_if_not_exist(account, path, key_setting) of
\* connect_to_account; after the third, connect_to_account returns the account.
Provision ==
    /\ batch.pc = "provision"
    /\ LET k == batch.k
           path == batch.paths[k]
           r == Walk(Split(path, "/"), 1, <<>>, "/", prov.exists, <<>>, prov.policy)
           wb == WriteBack(r)
           \* write_config reads _GLOBAL_CONFIG['internal']['config_file']
           keyerr == wb /\ ~prov.internal
           exc == IF r.raised THEN "MailboxFolderCreateError"
                  ELSE IF keyerr THEN "KeyError" ELSE "none"
           mem1 == IF wb THEN [prov.mem EXCEPT ![k] = r.prev_folder] ELSE prov.mem
           wrote == wb /\ prov.internal
           h == [run |-> batch.runs, k |-> k, path |-> path, pre |-> prov.exists,
                 post |-> r.exists, log |-> r.log, sep |-> r.sep,
                 resolved |-> r.prev_folder, raised |-> exc, wrote |-> wrote]
       IN /\ prov' = [prov EXCEPT !.exists = r.exists,
                                  !.mem = mem1,
                                  !.disk = IF wrote THEN mem1 ELSE @,
                                  !.internal = IF wrote THEN FALSE ELSE @,
                                  !.hist = Append(@, h)]
          /\ batch' =
               IF exc # "none"
               THEN [batch EXCEPT !.pc = "handle", !.exc = exc]
               ELSE IF k < Len(Keys)
               THEN [batch EXCEPT !.k = k + 1]
               ELSE [batch EXCEPT !.pc = "categorize", !.account = TRUE]
    /\ UNCHANGED <<conf, inbox_exists, builtin, chk, norm, store, uidnext, catVars, fmVars>>

\* filtered_mails = ml.categorize(account): it returns, raises
\* InvalidSettingsError (no inbox, no examples) or raises anything else.
BatchCategorize ==
    /\ batch.pc = "categorize"
    /\ \E outcome \in {"none", "InvalidSettingsError", "OtherError"} :
          batch' = IF outcome = "none"
                   THEN [batch EXCEPT !.pc = "filter"]
                   ELSE [batch EXCEPT !.pc = "handle", !.exc = outcome]
    /\ UNCHANGED <<conf, inbox_exists, builtin, chk, norm, prov, store, uidnext, catVars,
                   fmVars>>

\* utils.filter_mails(filtered_mails, account, passwd): it returns, raises
\* MailServerError (the auto-response was not sent) or raises anything else.
BatchFilter ==
    /\ batch.pc = "filter"
    /\ \E outcome \in {"none", "MailServerError", "OtherError"} :
          batch' = [batch EXCEPT !.pc = "handle", !.exc = outcome]
    /\ UNCHANGED <<conf, inbox_exists, builtin, chk, norm, prov, store, uidnext, catVars,
                   fmVars>>

\* The except and finally clauses of the batch run.  launch_cli re-raises a
\* caught error as Exception(error list), disconnects if account is set and
\* erases the password; main's finally erases it as well.  launch_gui erases
\* the password in its except clause only, keeps running after a batch that
\* returned, and is left by any exception its except clause does not catch.
Handle ==
    /\ batch.pc = "handle"
    /\ LET caught == batch.exc \in ConfigErrors
           live1 == IF batch.account THEN batch.live - 1 ELSE batch.live
       IN batch' =
            IF batch.driver = "cli"
            THEN [batch EXCEPT !.pc = "ended",
                               !.surfaced = IF caught THEN "Exception" ELSE batch.exc,
                               !.live = live1,
                               !.passwd = SecurelyErase(@)]
            ELSE IF caught
            THEN [batch EXCEPT !.pc = "inactive", !.surfaced = "popup",
                               !.active = FALSE,
                               !.live = live1, !.passwd = SecurelyErase(@)]
            ELSE IF batch.exc = "none"
            THEN [batch EXCEPT !.pc = "waiting", !.live = live1]
            ELSE [batch EXCEPT !.pc = "crashed", !.surfaced = batch.exc,
                               !.live = live1]
    /\ UNCHANGED <<conf, inbox_exists, builtin, chk, norm, prov, store, uidnext, catVars,
                   fmVars>>

\* launch_gui: the check interval has passed, the next batch starts in the
\* same process with the password kept from the last one.
NextInterval ==
    /\ batch.driver = "gui"
    /\ batch.pc = "waiting"
    /\ batch.active
    /\ batch.runs < MaxRuns
    /\ batch' = [batch EXCEPT !.pc = "connect", !.runs = @ + 1, !.account = FALSE,
                              !.exc = "none", !.surfaced = "none"]
    /\ UNCHANGED <<conf, inbox_exists, builtin, chk, norm, prov, store, uidnext, catVars,
                   fmVars>>

\* The program is started again: read_config loads the configuration file
\* into a fresh _GLOBAL_CONFIG, the password is entered again, and the
\* connections of the old process are gone.
Restart ==
    /\ batch.pc \in {"ended", "inactive", "crashed", "waiting"}
    /\ batch.runs < MaxRuns
    /\ prov' = [prov EXCEPT !.mem = prov.disk, !.internal = TRUE]
    /\ batch' = [batch EXCEPT !.pc = IF batch.driver = "cli" THEN "check" ELSE "connect",
                              !.runs = @ + 1, !.account = FALSE, !.live = 0,
                              !.exc = "none", !.surfaced = "none",
                              !.active = (batch.driver = "gui"),
                              !.passwd = <<"p", "w">>]
    /\ UNCHANGED <<conf, inbox_exists, builtin, chk, norm, store, uidnext, catVars, fmVars>>

RECURSIVE JoinFirst(_, _, _)
\* The first n of segs, joined with sep.
JoinFirst(segs, sep, n) ==
    IF n = 0 THEN <<>>
    ELSE IF n = 1 THEN segs[1]
    ELSE JoinFirst(segs, sep, n - 1) \o <<sep>> \o segs[n]

\* The cumulative prefixes of a path, root first.
Prefixes(path) ==
    LET segs == Split(path, "/")
    IN [n \in 1..Len(segs) |-> JoinFirst(segs, "/", n)]

\* What the account holds before the first run: for each setting, its first
\* e cumulative prefixes (none, the root only, or all of them).
InitBatch ==
    /\ \E n \in [1..3 -> 1..MaxSegs] :
       \E e \in [1..3 -> 0..MaxSegs] :
          /\ \A k \in 1..3 : e[k] \in {0, 1, n[k]}
          /\ LET paths == [k \in 1..3 |-> PathOf(Roots[k], n[k])]
             IN \E policy \in Policies :
                  prov = [exists |-> UNION {{Prefixes(paths[k])[j] : j \in 1..e[k]}
                                               : k \in 1..3},
                          policy |-> policy, mem |-> paths, disk |-> paths,
                          internal |-> TRUE, hist |-> <<>>]
    /\ \E driver \in {"cli", "gui"}, ok \in BOOLEAN :
          /\ driver = "gui" => ok
          /\ batch = [driver |-> driver,
                      pc |-> IF driver = "cli" THEN "check" ELSE "connect",
                      passwd |-> <<"p", "w">>, account |-> FALSE, live |-> 0,
                      exc |-> "none", surfaced |-> "none", k |-> 1,
                      paths |-> <<>>, runs |-> 1, settings_ok |-> ok,
                      active |-> (driver = "gui")]
    /\ norm = NoNorm
    /\ chk = NoChk
    /\ conf = [threshold |-> 60, use_builtin |-> FALSE, filter_tag |-> <<>>,
               filtered_folder |-> FILTERED, autoresponse |-> ""]
    /\ store = [f \in Folders |-> <<>>]
    /\ uidnext = [f \in Folders |-> 1]
    /\ inbox_exists = TRUE
    /\ builtin = [ex |-> <<>>, negex |-> <<>>]
    /\ cpc = "idle"
    /\ ci = 1
    /\ cat_mails = <<>>
    /\ embs = [ex |-> <<>>, negex |-> <<>>, mails |-> <<>>]
    /\ filtered_mails = <<>>
    /\ cmps = <<>>
    /\ fpc = "idle"
    /\ fi = 1
    /\ sent = <<>>
    /\ calls = <<>>

NextBatch ==
    \/ BatchCheck \/ Login \/ Provision \/ BatchCategorize \/ BatchFilter
    \/ Handle \/ NextInterval \/ Restart

SpecBatch == InitBatch /\ [][NextBatch]_vars

-----------------------------------------------------------------------------
(* Properties of folder provisioning and of the batch run *)

\* The create calls of one _create_folders_if_not_exist call.
Creates(h) == {i \in 1..Len(h.log) : h.log[i].op = "create"}
RejectedCreates(h) == {i \in Creates(h) : ~h.log[i].ok}
ExistsChecks(h) == SelectSeq(h.log, LAMBDA c : c.op = "exists")

\* path with every '/' replaced by '|'
ReplaceSep(path) == [i \in 1..Len(path) |-> IF path[i] = "/" THEN "|" ELSE path[i]]

\* The call fell back to '|' and resolved a path.
FellBack(h) == h.sep = "|" /\ h.raised # "MailboxFolderCreateError"

\* The batch run is over: its except and finally clauses have run.
BatchOver == batch.pc \in {"ended", "inactive", "crashed", "waiting"}

\* C13: when the store rejects a creation under '/' at any segment, the
\* resolved path is the whole original path with '|' in place of every '/',
\* and it never mixes both separators.
C13_SeparatorFallback ==
    \A j \in 1..Len(prov.hist) :
        LET h == prov.hist[j]
        IN FellBack(h) =>
              /\ h.resolved = ReplaceSep(h.path)
              /\ ~(\E a, b \in 1..Len(h.resolved) :
                       h.resolved[a] = "/" /\ h.resolved[b] = "|")

C15_ResolvedPathPersisted ==
    \A i \in 1..Len(prov.hist) :
        LET h == prov.hist[i]
        IN FellBack(h) =>
              /\ prov.disk[h.k] = h.resolved
              /\ \A j \in (i + 1)..Len(prov.hist) :
                    (prov.hist[j].k = h.k /\ prov.hist[j].run > h.run)
                        => Creates(prov.hist[j]) = {}

\* C16: the separator is switched at most once; a creation rejected after the
\* switch makes the call fail, and the failure reaches the driver as a
\* configuration error.
C16_FallbackOneShot ==
    /\ \A j \in 1..Len(prov.hist) :
          LET h == prov.hist[j]
          IN /\ Cardinality(RejectedCreates(h)) >= 2
                  => h.raised = "MailboxFolderCreateError"
             /\ \A i \in 1..Len(h.log) : \A a \in 1..Len(h.log[i].name) :
                  h.log[i].name[a] \in {"/", "|"} \cup Range(Roots) \cup Range(SegNames)
    /\ (batch.pc = "handle" /\ Len(prov.hist) > 0
          /\ prov.hist[Len(prov.hist)].run = batch.runs
          /\ Cardinality(RejectedCreates(prov.hist[Len(prov.hist)])) >= 2)
        => batch.exc \in ConfigErrors

\* C17: when no creation is rejected, the call checks every cumulative prefix
\* from root to leaf, creates exactly the missing ones, each right after its
\* own check and so never a child before its parent, and on return every
\* cumulative prefix exists.
C17_CreatesMissingPrefixes ==
    \A j \in 1..Len(prov.hist) :
        LET h == prov.hist[j]
            pf == Prefixes(h.path)
            checks == ExistsChecks(h)
        IN RejectedCreates(h) = {} =>
              /\ [n \in 1..Len(checks) |-> checks[n].name] = pf
              /\ {h.log[i].name : i \in Creates(h)} = Range(pf) \ h.pre
              /\ \A i \in Creates(h) :
                    /\ h.log[i - 1] = FCall("exists", h.log[i].name, FALSE)
                    /\ \A i2 \in Creates(h) :
                          i < i2 => Len(h.log[i].name) < Len(h.log[i2].name)
              /\ h.post = h.pre \cup Range(pf)
              /\ h.sep = "/"
              /\ h.raised = "none"

\* A call that found the root and created two nested folders below it.
C17_Witness ==
    \E j \in 1..Len(prov.hist) :
        LET h == prov.hist[j]
        IN /\ RejectedCreates(h) = {}
           /\ Cardinality(Creates(h)) = 2
           /\ h.pre \cap Range(Prefixes(h.path)) # {}

\* C18: when a batch run is over, however it ended and in either driver, the
\* password buffer is empty.
C18_PasswordScrubbed == BatchOver => batch.passwd = <<>>

\* C19: when a batch run is over, however it ended, no session that a login
\* established is still logged in, and never are two sessions logged in.
C19_SessionsLoggedOut ==
    /\ batch.live <= 1
    /\ BatchOver => batch.live = 0

-----------------------------------------------------------------------------
(* utils.parse_to_normalized_text *)

\* The longest message body, in characters / HTML tokens.
MaxText == 4

\* Characters are one-token strings: a letter, the space, the five characters
\* of the substitution class, and the vertical tab (whitespace outside it).
TextChars == {"a", " ", "TAB", "CR", "LF", "NBSP", "NUL", "VT"}
\* An HTML body is a sequence of characters, tags and entities.
HtmlTokens == {"a", " ", "LF", "NUL", "<p>", "&nbsp;"}

\* The class [\t\r\n\xa0\0] of both regular expressions
NormClass == {"TAB", "CR", "LF", "NBSP", "NUL"}
\* The characters str.strip() removes
Whitespace == {" ", "TAB", "CR", "LF", "NBSP", "VT"}

\* re.sub('[\t\r\n\xa0\0]', ' ', s)
SubClass(s) == [i \in 1..Len(s) |-> IF s[i] \in NormClass THEN " " ELSE s[i]]

RECURSIVE CollapseFrom(_, _)
CollapseFrom(s, i) ==
    IF i > Len(s) THEN <<>>
    ELSE IF s[i] = " " /\ i > 1 /\ s[i - 1] = " " THEN CollapseFrom(s, i + 1)
    ELSE <<s[i]>> \o CollapseFrom(s, i + 1)

\* re.sub('[ ]{2,}', ' ', s): every run of two or more spaces becomes one space
CollapseSpaces(s) == CollapseFrom(s, 1)

\* str.strip() that removes nothing
StripNothing(s) == s

RECURSIVE Strip(_)
\* str.strip()
Strip(s) ==
    IF s = <<>> THEN s
    ELSE IF s[1] \in Whitespace THEN Strip(Tail(s))
    ELSE IF s[Len(s)] \in Whitespace THEN Strip(SubSeq(s, 1, Len(s) - 1))
    ELSE s

\* BeautifulSoup(html, 'html.parser').get_text(): tags are dropped, entities
\* are decoded, text is kept.
GetText(html) ==
    LET text == SelectSeq(html, LAMBDA t : t # "<p>")
    IN [i \in 1..Len(text) |-> IF text[i] = "&nbsp;" THEN "NBSP" ELSE text[i]]

\* A bug: the HTML body is preferred to the plain-text body.
ParseHtmlFirst(message) ==
    IF message.html # <<>>
    THEN [is_none |-> FALSE,
          str |-> Strip(CollapseSpaces(SubClass(GetText(message.html))))]
    ELSE IF message.text # <<>>
    THEN [is_none |-> FALSE, str |-> Strip(CollapseSpaces(SubClass(message.text)))]
    ELSE [is_none |-> TRUE, str |-> <<>>]

\* The value of txt at the return statement: None or a string.
ParseToNormalizedText(message) ==
    IF message.text # <<>>
    THEN [is_none |-> FALSE, str |-> Strip(CollapseSpaces(SubClass(message.text)))]
    ELSE IF message.html # <<>>
    THEN [is_none |-> FALSE,
          str |-> Strip(CollapseSpaces(SubClass(GetText(message.html))))]
    ELSE [is_none |-> TRUE, str |-> <<>>]

\* One call parse_to_normalized_text(message).
Normalize ==
    /\ norm.pc = "idle"
    /\ norm' = [norm EXCEPT !.pc = "done",
                            !.txt = ParseToNormalizedText(norm.message),
                            !.warned = (norm.message.text = <<>>
                                          /\ norm.message.html = <<>>)]
    /\ UNCHANGED <<conf, inbox_exists, builtin, chk, prov, batch, store, uidnext,
                   catVars, fmVars>>

\* The cutoff_chars arguments the model draws from: None (the default) or a
\* number of characters, below and above the length of the texts.
Cutoffs == {[given |-> FALSE, n |-> 0]} \cup {[given |-> TRUE, n |-> n] : n \in {0, 2, 9}}

\* text[:n] for n >= 0
SliceTo(text, n) == SubSeq(text, 1, IF n < Len(text) THEN n ELSE Len(text))

\* The element _extract_text appends for one message:
\* parse(e)[:cutoff_chars] if cutoff_chars else parse(e).  Slicing None raises
\* TypeError.
ExtractTextOf(message, cutoff_chars) ==
    LET txt == ParseToNormalizedText(message)
    IN IF cutoff_chars.given /\ cutoff_chars.n # 0
       THEN IF txt.is_none
            THEN [raised |-> TRUE, is_none |-> TRUE, str |-> <<>>]
            ELSE [raised |-> FALSE, is_none |-> FALSE,
                  str |-> SliceTo(txt.str, cutoff_chars.n)]
       ELSE [raised |-> FALSE, is_none |-> txt.is_none, str |-> txt.str]

\* One call _extract_text([message], cutoff_chars).
ExtractText ==
    /\ norm.pc = "idle"
    /\ \E cutoff_chars \in Cutoffs :
          norm' = [norm EXCEPT !.pc = "extracted",
                               !.cutoff_chars = cutoff_chars,
                               !.txt = ParseToNormalizedText(norm.message),
                               !.warned = (norm.message.text = <<>>
                                             /\ norm.message.html = <<>>),
                               !.txt_mails = ExtractTextOf(norm.message, cutoff_chars)]
    /\ UNCHANGED <<conf, inbox_exists, builtin, chk, prov, batch, store, uidnext,
                   catVars, fmVars>>

\* The message is any plain-text body with an HTML alternative or without
\* one, or any HTML body without plain text.
InitNormalize ==
    /\ \E text \in SeqsUpTo(TextChars, MaxText), html \in SeqsUpTo(HtmlTokens, MaxText) :
          /\ text = <<>> \/ html \in {<<>>, <<"<p>", "a">>}
          /\ norm = [NoNorm EXCEPT !.pc = "idle",
                                    !.message = [text |-> text, html |-> html]]
    /\ prov = NoProv
    /\ batch = NoBatch
    /\ chk = NoChk
    /\ conf = [threshold |-> 60, use_builtin |-> FALSE, filter_tag |-> <<>>,
               filtered_folder |-> FILTERED, autoresponse |-> ""]
    /\ store = [f \in Folders |-> <<>>]
    /\ uidnext = [f \in Folders |-> 1]
    /\ inbox_exists = TRUE
    /\ builtin = [ex |-> <<>>, negex |-> <<>>]
    /\ cpc = "idle"
    /\ ci = 1
    /\ cat_mails = <<>>
    /\ embs = [ex |-> <<>>, negex |-> <<>>, mails |-> <<>>]
    /\ filtered_mails = <<>>
    /\ cmps = <<>>
    /\ fpc = "idle"
    /\ fi = 1
    /\ sent = <<>>
    /\ calls = <<>>

NextNormalize == Normalize \/ ExtractText

SpecNormalize == InitNormalize /\ [][NextNormalize]_vars

\* C20: every string parse_to_normalized_text returns holds no tab, CR, LF,
\* NUL or NBSP, no run of two or more spaces, and no leading or trailing
\* whitespace, whatever the message.
C20_NormalizedTextInvariant ==
    (norm.pc = "done" /\ ~norm.txt.is_none) =>
        LET s == norm.txt.str
        IN /\ \A i \in 1..Len(s) : s[i] \notin NormClass
           /\ \A i \in 1..(Len(s) - 1) : ~(s[i] = " " /\ s[i + 1] = " ")
           /\ s # <<>> => (s[1] \notin Whitespace /\ s[Len(s)] \notin Whitespace)

\* A body with leading whitespace and two class characters in a row between
\* letters has been normalised to two letters around one space.
C20_Witness ==
    /\ norm.pc = "done"
    /\ Len(norm.message.text) = 4
    /\ norm.message.text[1] \in Whitespace
    /\ norm.message.text[3] \in NormClass
    /\ norm.txt = [is_none |-> FALSE, str |-> <<"a", " ", "a">>]

-----------------------------------------------------------------------------
(* Properties of parse_to_normalized_text *)

\* Every character of {tab, CR, LF, NBSP, NUL} replaced by one space.
RefReplaced(s) ==
    [i \in 1..Len(s) |->
        IF s[i] \in {"TAB", "CR", "LF", "NBSP", "NUL"} THEN " " ELSE s[i]]

RECURSIVE RefCollapsed(_)
\* Each run of two or more spaces collapsed to one space.
RefCollapsed(s) ==
    IF Len(s) <= 1 THEN s
    ELSE IF s[1] = " " /\ s[2] = " " THEN RefCollapsed(Tail(s))
    ELSE <<s[1]>> \o RefCollapsed(Tail(s))

\* Leading and trailing whitespace removed.
RefTrimmed(s) ==
    LET inked == {i \in 1..Len(s) : s[i] \notin Whitespace}
    IN IF inked = {} THEN <<>>
       ELSE LET a == CHOOSE i \in inked : \A j \in inked : i <= j
                b == CHOOSE i \in inked : \A j \in inked : j <= i
            IN SubSeq(s, a, b)

\* C21: for a non-empty plain-text body the result is exactly the text with
\* every character of {tab, CR, LF, NBSP, NUL} replaced by one space, then each
\* run of 2+ spaces collapsed to one, then trimmed ("Hello\t\tworld\n\n  there"
\* gives "Hello world there"), whatever the HTML body; the HTML body is used,
\* with the same rules, only when the plain-text body is empty.
C21_NormalizedExactly ==
    /\ norm.pc = "done" =>
          /\ norm.message.text # <<>> =>
                norm.txt = [is_none |-> FALSE,
                            str |-> RefTrimmed(RefCollapsed(RefReplaced(norm.message.text)))]
          /\ (norm.message.text = <<>> /\ norm.message.html # <<>>) =>
                norm.txt = [is_none |-> FALSE,
                            str |-> RefTrimmed(RefCollapsed(RefReplaced(
                                        GetText(norm.message.html))))]
    /\ ParseToNormalizedText(
          [text |-> <<"H", "TAB", "TAB", "w", "LF", "LF", " ", " ", "t">>,
           html |-> <<>>]).str = <<"H", " ", "w", " ", "t">>

\* A plain-text body with two tabs between letters, next to an HTML body that
\* is not used.
C21_Witness ==
    /\ norm.pc = "done"
    /\ norm.message.text = <<"a", "TAB", "TAB", "a">>
    /\ norm.message.html # <<>>
    /\ norm.txt.str = <<"a", " ", "a">>

\* C22: for a message with neither plain text nor HTML the result is an empty
\* string, with a warning, so that the embedding step receives a text.
C22_EmptyMessageEmptyText ==
    (norm.pc = "done" /\ norm.message.text = <<>> /\ norm.message.html = <<>>) =>
        /\ norm.warned
        /\ ~norm.txt.is_none
        /\ norm.txt.str = <<>>

\* C23: for every message with a non-empty plain-text body or an HTML body the
\* result is a non-empty string.
C23_EmptyOnlyWithoutBody ==
    (norm.pc = "done" /\ (norm.message.text # <<>> \/ norm.message.html # <<>>)) =>
        /\ ~norm.txt.is_none
        /\ norm.txt.str # <<>>

\* The normalized text of a message by the rules of the normalizer: the
\* plain-text body, else the HTML body's text, else the empty text.
RefNormalized(message) ==
    IF message.text # <<>>
    THEN RefTrimmed(RefCollapsed(RefReplaced(message.text)))
    ELSE RefTrimmed(RefCollapsed(RefReplaced(GetText(message.html))))

\* C28: with a maximum length n >= 0 supplied, _extract_text returns the first
\* min(n, length) characters of the normalized text, for every message, also
\* one with no text and no HTML; with no maximum it returns the normalized
\* text unchanged.
C28_TruncationFromTheEnd ==
    norm.pc = "extracted" =>
        LET full == RefNormalized(norm.message)
            n == norm.cutoff_chars.n
        IN /\ ~norm.txt_mails.raised
           /\ norm.txt_mails.str =
                 IF norm.cutoff_chars.given
                 THEN SubSeq(full, 1, IF n < Len(full) THEN n ELSE Len(full))
                 ELSE full

-----------------------------------------------------------------------------
(* _check_settings of mail_receptionist_cli.py and of mail_receptionist.py *)

\* The settings handed to _check_settings, in the order of the configuration;
\* the GUI's list also holds the check interval.
SettingKeys ==
    <<"imap server", "imap port", "smtp port", "filtered folder", "filter tag",
      "send auto-response mail">>
GuiSettingKeys == SettingKeys \o <<"check mail every .. minutes">>

\* The values a setting is given: empty, blank, a word, a number.
NumberValues == {<<>>, <<"x">>, <<"0">>, <<"9">>}
TextValues == {<<>>, <<" ">>, <<"x">>}
ValuesOf(key) ==
    IF key \in {"imap port", "smtp port", "check mail every .. minutes"}
    THEN NumberValues ELSE TextValues

Digits == {"0", "9"}

\* int(v) does not raise: digits, after surrounding whitespace is dropped
IntParses(v) ==
    LET t == Strip(v) IN t # <<>> /\ \A i \in 1..Len(t) : t[i] \in Digits

\* int(v) < 1, for a v that int() parses
BelowOne(v) == LET t == Strip(v) IN \A i \in 1..Len(t) : t[i] = "0"

\* The entry appended to error_list: its text names the setting.
ErrorEntry(kind, key) == [kind |-> kind, key |-> key]

\* "kv[0] in ('send auto-response mail')": a substring test on a string, which
\* among the settings only the key of that name passes.
MayBeEmpty(key) == key = "send auto-response mail"

RECURSIVE CheckLoopFirstOnly(_, _, _, _, _)
\* A bug: the loop is left at the first violation.
CheckLoopFirstOnly(settings, gui, i, error_list, filtered_is_set) ==
    IF i > Len(settings) \/ error_list # <<>>
    THEN [error_list |-> error_list, filtered_is_set |-> filtered_is_set]
    ELSE
      LET kv == settings[i]
          isnum == kv[1] \in {"imap port", "smtp port"}
                      \/ (gui /\ kv[1] = "check mail every .. minutes")
          bad == IF isnum
                 THEN ~IntParses(kv[2])
                        \/ (kv[1] = "check mail every .. minutes" /\ BelowOne(kv[2]))
                 ELSE IF kv[1] \in {"filtered folder", "filter tag"} THEN FALSE
                 ELSE IF MayBeEmpty(kv[1]) THEN FALSE
                 ELSE kv[2] = <<>>
          set == IF ~isnum /\ kv[1] \in {"filtered folder", "filter tag"}
                    /\ ~filtered_is_set /\ kv[2] # <<>>
                 THEN TRUE ELSE filtered_is_set
      IN CheckLoopFirstOnly(settings, gui, i + 1,
             IF bad THEN Append(error_list,
                                ErrorEntry(IF isnum THEN "integer" ELSE "empty", kv[1]))
             ELSE error_list, set)

RECURSIVE CheckLoop(_, _, _, _, _)
\* "for kv in settings" from the i-th setting on
CheckLoop(settings, gui, i, error_list, filtered_is_set) ==
    IF i > Len(settings)
    THEN [error_list |-> error_list, filtered_is_set |-> filtered_is_set]
    ELSE
      LET kv == settings[i]
          isnum == kv[1] \in {"imap port", "smtp port"}
                      \/ (gui /\ kv[1] = "check mail every .. minutes")
          bad == IF isnum
                 THEN ~IntParses(kv[2])
                        \/ (kv[1] = "check mail every .. minutes" /\ BelowOne(kv[2]))
                 ELSE IF kv[1] \in {"filtered folder", "filter tag"} THEN FALSE
                 ELSE IF MayBeEmpty(kv[1]) THEN FALSE
                 ELSE kv[2] = <<>>
          set == IF ~isnum /\ kv[1] \in {"filtered folder", "filter tag"}
                    /\ ~filtered_is_set /\ kv[2] # <<>>
                 THEN TRUE ELSE filtered_is_set
      IN CheckLoop(settings, gui, i + 1,
             IF bad THEN Append(error_list,
                                ErrorEntry(IF isnum THEN "integer" ELSE "empty", kv[1]))
             ELSE error_list, set)

\* One call _check_settings(settings): the loop, the rule on filter tag and
\* filtered folder, and the raise.
CheckSettings ==
    /\ chk.pc = "idle"
    /\ LET r == CheckLoop(chk.settings, chk.gui, 1, <<>>, FALSE)
           error_list == IF ~r.filtered_is_set
                         THEN Append(r.error_list, ErrorEntry("both empty", "filter"))
                         ELSE r.error_list
       IN chk' = [chk EXCEPT !.pc = "done", !.error_list = error_list,
                             !.raised = (error_list # <<>>)]
    /\ UNCHANGED <<conf, inbox_exists, builtin, norm, prov, batch, store, uidnext,
                   catVars, fmVars>>

InitCheck ==
    /\ \E gui \in BOOLEAN :
         LET keys == IF gui THEN GuiSettingKeys ELSE SettingKeys
         IN \E vals \in [1..Len(keys) -> NumberValues \cup TextValues] :
               /\ \A i \in 1..Len(keys) : vals[i] \in ValuesOf(keys[i])
               /\ chk = [pc |-> "idle", gui |-> gui,
                         settings |-> [i \in 1..Len(keys) |-> <<keys[i], vals[i]>>],
                         error_list |-> <<>>, raised |-> FALSE]
    /\ prov = NoProv
    /\ batch = NoBatch
    /\ norm = NoNorm
    /\ conf = [threshold |-> 60, use_builtin |-> FALSE, filter_tag |-> <<>>,
               filtered_folder |-> FILTERED, autoresponse |-> ""]
    /\ store = [f \in Folders |-> <<>>]
    /\ uidnext = [f \in Folders |-> 1]
    /\ inbox_exists = TRUE
    /\ builtin = [ex |-> <<>>, negex |-> <<>>]
    /\ cpc = "idle"
    /\ ci = 1
    /\ cat_mails = <<>>
    /\ embs = [ex |-> <<>>, negex |-> <<>>, mails |-> <<>>]
    /\ filtered_mails = <<>>
    /\ cmps = <<>>
    /\ fpc = "idle"
    /\ fi = 1
    /\ sent = <<>>
    /\ calls = <<>>

NextCheck == CheckSettings

SpecCheck == InitCheck /\ [][NextCheck]_vars

\* The value of a setting in the list handed to _check_settings.
ValueOf(key) ==
    LET i == CHOOSE i \in 1..Len(chk.settings) : chk.settings[i][1] = key
    IN chk.settings[i][2]
HasKey(key) == \E i \in 1..Len(chk.settings) : chk.settings[i][1] = key

\* The rules a configuration violates: a port that is no integer, an empty
\* required setting, filter tag and filtered folder both empty (and, in the
\* GUI, a check interval that is no integer of at least 1).
ViolatedRules ==
    {ErrorEntry("integer", k) : k \in {k \in {"imap port", "smtp port"} :
                                           ~IntParses(ValueOf(k))}}
    \cup {ErrorEntry("empty", k) : k \in {k \in {"imap server"} : ValueOf(k) = <<>>}}
    \cup (IF ValueOf("filtered folder") = <<>> /\ ValueOf("filter tag") = <<>>
          THEN {ErrorEntry("both empty", "filter")} ELSE {})
    \cup (IF HasKey("check mail every .. minutes")
             /\ (~IntParses(ValueOf("check mail every .. minutes"))
                   \/ ValueOf("check mail every .. minutes") = <<"0">>)
          THEN {ErrorEntry("integer", "check mail every .. minutes")} ELSE {})

\* C24: _check_settings raises InvalidSettingsError exactly when at least one
\* rule is violated, and the error list then holds one entry for each violated
\* rule, all distinct, not only the first.
C24_AllViolationsReported ==
    chk.pc = "done" =>
        /\ chk.raised <=> ViolatedRules # {}
        /\ Range(chk.error_list) = ViolatedRules
        /\ Len(chk.error_list) = Cardinality(ViolatedRules)

\* Two bad ports, a missing server and no filter setting are all reported.
C24_Witness ==
    /\ chk.pc = "done"
    /\ chk.raised
    /\ Len(chk.error_list) = 4
    /\ ValueOf("imap port") = <<"x">>
    /\ ValueOf("smtp port") = <<>>

-----------------------------------------------------------------------------
(* More properties of categorize *)

\* C25: the threshold categorize compares with, the percentage setting divided
\* by 100, lies strictly between 0 and 1 for every setting value accepted, and
\* is the same for the positive and the negative comparisons.
C25_ThresholdInUnitInterval ==
    cpc \in {"loop", "done"} =>
        /\ 0 < Threshold /\ Threshold < 100
        /\ \A sim \in {Inner(a, b) : a \in CandVecs, b \in ExVecs} :
              PosExceeds(sim, Threshold) <=> NegExceeds(sim, Threshold)

\* The least element of a non-empty set of numbers.
Least(S) == CHOOSE n \in S : \A m \in S : n <= m

\* C29: for each candidate the number of positive comparisons is the position
\* of the first positive exemplar above the threshold, or the size of the
\* positive set when there is none; the negative set is scanned at most once,
\* up to its first exemplar above the threshold, and only after a positive hit.
C29_FirstMatchScanning ==
    \A i \in 1..Len(cmps) :
        LET c == embs.mails[i]
            hits == {j \in 1..Len(embs.ex) : Inner(c, embs.ex[j]) > Threshold}
            neghits == {k \in 1..Len(embs.negex) : Inner(c, embs.negex[k]) > Threshold}
        IN /\ cmps[i].pos = IF hits = {} THEN Len(embs.ex) ELSE Least(hits)
           /\ cmps[i].neg = IF hits = {} THEN 0
                            ELSE IF neghits = {} THEN Len(embs.negex)
                            ELSE Least(neghits)

\* A candidate whose second positive exemplar is the first above the threshold
\* and whose first of two negative exemplars ends the negative scan.
C29_Witness ==
    /\ cpc = "done"
    /\ \E i \in 1..Len(cmps) :
          /\ Len(embs.ex) = 2 /\ Len(embs.negex) = 2
          /\ cmps[i] = [pos |-> 2, neg |-> 1]

\* All rearrangements of a sequence.
Perms(q) ==
    {[i \in 1..Len(q) |-> q[f[i]]] :
        f \in {g \in [1..Len(q) -> 1..Len(q)] :
                  \A a, b \in 1..Len(q) : a # b => g[a] # g[b]}}

RECURSIVE ScanAll(_, _, _, _)
\* The list the classification loop builds for mails against ex and negex.
ScanAll(mails, ex, negex, t) ==
    IF mails = <<>> THEN <<>>
    ELSE PosScan(Head(mails), Head(mails).vec, ex, negex, t, 1).app
            \o ScanAll(Tail(mails), ex, negex, t)

\* C30: the returned list is the same for every order of the positive and of
\* the negative exemplars, and holds exactly the candidates with some positive
\* and no negative exemplar above the threshold; with an empty positive set
\* nothing is returned, and the classification loop raises no error.
C30_OrderIndependent ==
    /\ cpc = "done" =>
          /\ \A pex \in Perms(embs.ex), pnx \in Perms(embs.negex) :
                filtered_mails = ScanAll(cat_mails, pex, pnx, Threshold)
          /\ \A k \in 1..Len(cat_mails) :
                cat_mails[k] \in Range(filtered_mails)
                    <=> (/\ \E e \in Range(embs.ex) : Inner(cat_mails[k].vec, e) > Threshold
                         /\ \A e \in Range(embs.negex) :
                               ~(Inner(cat_mails[k].vec, e) > Threshold))
          /\ embs.ex = <<>> => filtered_mails = <<>>
    /\ cpc = "error" => cmps = <<>>

\* A returned candidate that only the second of two different positive
\* exemplars matches, with a negative exemplar below the threshold.
C30_Witness ==
    /\ cpc = "done"
    /\ Len(embs.ex) = 2 /\ embs.ex[1] # embs.ex[2]
    /\ embs.negex # <<>>
    /\ \E i \in 1..Len(cmps) :
          /\ cmps[i].pos = 2
          /\ cat_mails[i] \in Range(filtered_mails)

-----------------------------------------------------------------------------
(* More properties of the batch run *)

\* C26: within one batch run no folder creation is issued a second time with
\* the same name after it was rejected; the fallback uses a different path.
C26_NoAutomaticRetry ==
    \A a, b \in 1..Len(prov.hist) :
        prov.hist[a].run = prov.hist[b].run =>
            \A i \in RejectedCreates(prov.hist[a]), j \in Creates(prov.hist[b]) :
                (a < b \/ (a = b /\ i < j))
                    => prov.hist[a].log[i].name # prov.hist[b].log[j].name

-----------------------------------------------------------------------------
(* A batch in tag mode without auto-response: categorize, then filter_mails on
   the list it returned *)

\* An inbox mail is unseen with either candidate vector and a plain or an
\* already tagged subject, unseen without Subject header, or already seen.
EndToEndKinds ==
    {[vec |-> v, subject |-> sj, hdr |-> TRUE, flags |-> {}] :
        v \in CandVecs, sj \in {<<"x">>, TagPrefix(<<"V", "A", "C">>) \o <<"x">>}}
    \cup {[vec |-> <<6, 8>>, subject |-> <<>>, hdr |-> FALSE, flags |-> {}],
          [vec |-> <<6, 8>>, subject |-> <<"x">>, hdr |-> TRUE, flags |-> {SEEN}]}

InitEndToEnd ==
    /\ conf \in [threshold : {55, 80}, use_builtin : {FALSE},
                 filter_tag : {<<"V", "A", "C">>}, filtered_folder : {FILTERED, ""},
                 autoresponse : {""}]
    /\ \E ks \in SeqsUpTo(EndToEndKinds, MaxMails),
          ex \in ExampleMsgs(ExVecs), nx \in ExampleMsgs(ExVecs) :
          store = [f \in Folders |->
                      CASE f = INBOX ->
                             [k \in 1..Len(ks) |->
                                 Msg(k, k, ks[k].subject, ks[k].hdr, ks[k].flags, ks[k].vec)]
                        [] f = EXAMPLES -> ex
                        [] f = NEGEXAMPLES -> nx
                        [] OTHER -> <<>>]
    /\ uidnext = [f \in Folders |-> Len(store[f]) + 1]
    /\ inbox_exists = TRUE
    /\ builtin = [ex |-> <<>>, negex |-> <<>>]
    /\ cpc = "idle"
    /\ ci = 1
    /\ cat_mails = <<>>
    /\ embs = [ex |-> <<>>, negex |-> <<>>, mails |-> <<>>]
    /\ filtered_mails = <<>>
    /\ cmps = <<>>
    /\ fpc = "idle"
    /\ fi = 1
    /\ sent = <<>>
    /\ calls = <<>>
    /\ prov = NoProv
    /\ batch = NoBatch
    /\ norm = NoNorm
    /\ chk = NoChk

NextEndToEnd ==
    \/ CatStart \/ CatClassify \/ CatReturn
    \/ FmStart \/ FmAppend \/ FmDelete

SpecEndToEnd == InitEndToEnd /\ [][NextEndToEnd]_vars

\* The number in the log line 'Added filter tag prefix to N mails', written
\* when the tag branch has run through.
TaggedLogged == Len(filtered_mails)

\* The classifier matches the mail: some positive and no negative exemplar is
\* more similar to it than the threshold.
Matches(m) ==
    /\ \E e \in Range(embs.ex) : Inner(m.vec, e) > Threshold
    /\ \A e \in Range(embs.negex) : ~(Inner(m.vec, e) > Threshold)

\* C27: after a batch in tag mode with a filtered folder and no auto-response
\* has run through, every candidate the classifier matches has one clone in
\* the filtered folder, its subject starting with the tag prefix, marked seen,
\* and is gone from the inbox; every other candidate is untouched; the number
\* logged as tagged is the number of matched candidates and no auto-response
\* was sent.
C27_EndToEndTagMode ==
    (fpc = "done" /\ conf.filtered_folder # "") =>
        /\ \A k \in 1..Len(cat_mails) :
              LET m == cat_mails[k]
              IN IF Matches(m)
                 THEN /\ Cardinality(CopiesIn(m, conf.filtered_folder)) = 1
                      /\ \A j \in CopiesIn(m, conf.filtered_folder) :
                            LET clone == store[conf.filtered_folder][j]
                            IN /\ StartsWith(clone.subject, <<"[", "V", "A", "C", "]", " ">>)
                               /\ clone.flags = {SEEN}
                               /\ clone.vec = m.vec
                      /\ ~OriginalInInbox(m)
                 ELSE /\ \E j \in 1..Len(store[INBOX]) :
                            store[INBOX][j].uid = m.uid /\ store[INBOX][j].flags = m.flags
                      /\ CopiesIn(m, conf.filtered_folder) = {}
                      /\ CopiesIn(m, INBOX) = {}
        /\ TaggedLogged = Cardinality({k \in 1..Len(cat_mails) : Matches(cat_mails[k])})
        /\ sent = <<>>
        /\ CallsOf("send") = {}

\* The scenario of the claim: one candidate of similarity 0.8 to the only
\* positive exemplar, no negatives, threshold 0.55, tag VAC: one clone with
\* subject "[VAC] x" in the filtered folder, the inbox empty, 1 logged.
C27_Witness ==
    /\ fpc = "done" /\ conf.filtered_folder = FILTERED /\ conf.threshold = 55
    /\ Len(cat_mails) = 1 /\ Len(embs.ex) = 1 /\ embs.negex = <<>>
    /\ Inner(cat_mails[1].vec, embs.ex[1]) = 80
    /\ store[INBOX] = <<>>
    /\ Len(store[FILTERED]) = 1
    /\ store[FILTERED][1].subject = <<"[", "V", "A", "C", "]", " ", "x">>
    /\ TaggedLogged = 1

-----------------------------------------------------------------------------
(* Properties of write_config *)

\* C31: write_config can be called any number of times in one process: the
\* loaded configuration keeps its internal config-file-name entry and no
\* write_config call of the folder provisioning ends in an error.
C31_WriteConfigRepeatable ==
    /\ prov.internal
    /\ \A i \in 1..Len(prov.hist) : prov.hist[i].raised # "KeyError"

-----------------------------------------------------------------------------
(* Consecutive batch runs on the same mailbox *)

\* The settings of the runs: tag mode with auto-response into the filtered
\* folder, tag mode into the inbox, move mode with auto-response.
RunConfs ==
    {c \in [threshold : {60}, use_builtin : {FALSE}, filter_tag : {<<>>, <<"V">>},
            filtered_folder : {"", FILTERED}, autoresponse : {"", "auto-response.txt"}] :
        \/ c.filter_tag # <<>> /\ c.filtered_folder # "" /\ c.autoresponse # ""
        \/ c.filter_tag # <<>> /\ c.filtered_folder = "" /\ c.autoresponse = ""
        \/ c.filter_tag = <<>> /\ c.filtered_folder # "" /\ c.autoresponse # ""}

\* The driver runs the next batch (the check interval has passed, or the
\* program is started again): categorize and filter_mails start over on the
\* mailbox as the last run left it.
NextRun ==
    /\ cpc = "error" \/ fpc \in {"done", "failed"}
    /\ batch.runs < MaxRuns
    /\ batch' = [batch EXCEPT !.runs = @ + 1]
    /\ cpc' = "idle"
    /\ ci' = 1
    /\ cat_mails' = <<>>
    /\ embs' = [ex |-> <<>>, negex |-> <<>>, mails |-> <<>>]
    /\ filtered_mails' = <<>>
    /\ cmps' = <<>>
    /\ fpc' = "idle"
    /\ fi' = 1
    /\ UNCHANGED <<conf, inbox_exists, builtin, chk, norm, prov, store, uidnext, sent,
                   calls>>

\* Unseen inbox mails, each one similar (0.8) or not (0.0) to the only
\* positive example; the negative example, if there is one, is not similar
\* (0.0) to the mails the positive example matches.
InitRuns ==
    /\ conf \in RunConfs
    /\ \E vs \in SeqsUpTo(CandVecs, MaxMails), neg \in BOOLEAN :
          store = [f \in Folders |->
                      CASE f = INBOX ->
                             [k \in 1..Len(vs) |-> Msg(k, k, <<"x">>, TRUE, {}, vs[k])]
                        [] f = EXAMPLES -> <<Msg(1, 0, <<>>, TRUE, {SEEN}, <<0, 10>>)>>
                        [] f = NEGEXAMPLES ->
                             IF neg THEN <<Msg(1, 0, <<>>, TRUE, {}, <<8, -6>>)>>
                             ELSE <<>>
                        [] OTHER -> <<>>]
    /\ uidnext = [f \in Folders |-> Len(store[f]) + 1]
    /\ inbox_exists = TRUE
    /\ builtin = [ex |-> <<>>, negex |-> <<>>]
    /\ cpc = "idle"
    /\ ci = 1
    /\ cat_mails = <<>>
    /\ embs = [ex |-> <<>>, negex |-> <<>>, mails |-> <<>>]
    /\ filtered_mails = <<>>
    /\ cmps = <<>>
    /\ fpc = "idle"
    /\ fi = 1
    /\ sent = <<>>
    /\ calls = <<>>
    /\ prov = NoProv
    /\ batch = NoBatch
    /\ norm = NoNorm
    /\ chk = NoChk

NextRuns ==
    \/ CatStart \/ CatClassify \/ CatReturn
    \/ FmStart \/ FmAppend \/ FmSendTag \/ FmDelete
    \/ FmSendMove \/ FmFlag \/ FmSeen \/ FmMove
    \/ NextRun

SpecRuns == InitRuns /\ [][NextRuns]_vars

\* The Message-IDs of the inbox mails the runs started with
RunMids == {m.mid : m \in Range(store[INBOX]) \cup Range(store[FILTERED])} \ {0}

\* C32: across consecutive runs every message has at most one clone in the
\* destination folder and its sender has received at most one auto-response.
C32_AtMostOnceAcrossRuns ==
    \A mid \in RunMids :
        /\ Cardinality({j \in 1..Len(store[DestFolder]) :
                           /\ store[DestFolder][j].mid = mid
                           /\ ~(DestFolder = INBOX /\ store[DestFolder][j].uid = mid)}) <= 1
        /\ Cardinality({j \in 1..Len(sent) : sent[j].mid = mid}) <= 1

-----------------------------------------------------------------------------
(* launch_cli on a configuration: _check_settings, then the batch *)

\* A bug: the result of _check_settings is ignored.
LaunchCheckIgnored ==
    /\ batch.driver = "cli"
    /\ batch.pc = "check"
    /\ chk.pc = "idle"
    /\ LET r == CheckLoop(chk.settings, FALSE, 1, <<>>, FALSE)
           error_list == IF ~r.filtered_is_set
                         THEN Append(r.error_list, ErrorEntry("both empty", "filter"))
                         ELSE r.error_list
       IN /\ chk' = [chk EXCEPT !.pc = "done", !.error_list = error_list,
                                !.raised = (error_list # <<>>)]
          /\ batch' = [batch EXCEPT !.pc = "connect"]
    /\ UNCHANGED <<conf, inbox_exists, builtin, norm, prov, store, uidnext, catVars,
                   fmVars>>

\* _check_settings(_update_from_config()) at the head of launch_cli: the
\* settings of the loaded configuration are checked; InvalidSettingsError
\* takes the run to the except clause.
LaunchCheck ==
    /\ batch.driver = "cli"
    /\ batch.pc = "check"
    /\ chk.pc = "idle"
    /\ LET r == CheckLoop(chk.settings, FALSE, 1, <<>>, FALSE)
           error_list == IF ~r.filtered_is_set
                         THEN Append(r.error_list, ErrorEntry("both empty", "filter"))
                         ELSE r.error_list
       IN /\ chk' = [chk EXCEPT !.pc = "done", !.error_list = error_list,
                                !.raised = (error_list # <<>>)]
          /\ batch' = IF error_list = <<>>
                      THEN [batch EXCEPT !.pc = "connect"]
                      ELSE [batch EXCEPT !.pc = "handle", !.exc = "InvalidSettingsError"]
    /\ UNCHANGED <<conf, inbox_exists, builtin, norm, prov, store, uidnext, catVars,
                   fmVars>>

\* The configuration: the filtered folder is empty, 'F' or 'F/a', the filter
\* tag empty or 'V', the IMAP port a number or a word; the example folders
\* are 'P' and 'N'.  The account holds any of the folders; a store may also
\* answer the existence check of the empty name either way.
InitLaunchCli ==
    /\ \E fpath \in {<<>>, <<"F">>, PathOf("F", 2)}, tag \in {<<>>, <<"V">>},
          port \in {<<"9">>, <<"x">>}, policy \in Policies,
          ex \in SUBSET {<<>>, <<"P">>, <<"F">>, <<"N">>} :
          /\ chk = [pc |-> "idle", gui |-> FALSE,
                    settings |->
                      [i \in 1..Len(SettingKeys) |->
                          <<SettingKeys[i],
                            CASE SettingKeys[i] = "filtered folder" -> fpath
                              [] SettingKeys[i] = "filter tag" -> tag
                              [] SettingKeys[i] = "imap port" -> port
                              [] SettingKeys[i] = "smtp port" -> <<"9">>
                              [] SettingKeys[i] = "send auto-response mail" -> <<>>
                              [] OTHER -> <<"x">> >>],
                    error_list |-> <<>>, raised |-> FALSE]
          /\ prov = [exists |-> ex, policy |-> policy,
                     mem |-> <<<<"P">>, fpath, <<"N">>>>,
                     disk |-> <<<<"P">>, fpath, <<"N">>>>,
                     internal |-> TRUE, hist |-> <<>>]
    /\ batch = [driver |-> "cli", pc |-> "check", passwd |-> <<"p", "w">>,
                account |-> FALSE, live |-> 0, exc |-> "none", surfaced |-> "none",
                k |-> 1, paths |-> <<>>, runs |-> 1, settings_ok |-> TRUE,
                active |-> FALSE]
    /\ norm = NoNorm
    /\ conf = [threshold |-> 60, use_builtin |-> FALSE, filter_tag |-> <<>>,
               filtered_folder |-> FILTERED, autoresponse |-> ""]
    /\ store = [f \in Folders |-> <<>>]
    /\ uidnext = [f \in Folders |-> 1]
    /\ inbox_exists = TRUE
    /\ builtin = [ex |-> <<>>, negex |-> <<>>]
    /\ cpc = "idle"
    /\ ci = 1
    /\ cat_mails = <<>>
    /\ embs = [ex |-> <<>>, negex |-> <<>>, mails |-> <<>>]
    /\ filtered_mails = <<>>
    /\ cmps = <<>>
    /\ fpc = "idle"
    /\ fi = 1
    /\ sent = <<>>
    /\ calls = <<>>

NextLaunchCli ==
    \/ LaunchCheck \/ Login \/ Provision
    \/ BatchCategorize \/ BatchFilter \/ Handle

SpecLaunchCli == InitLaunchCli /\ [][NextLaunchCli]_vars

\* C33: a configuration that _check_settings accepts can be provisioned: for
\* an empty filtered-folder setting no existence check and no create call is
\* issued for the empty folder name, and the provisioning call does not fail.
C33_AcceptedIsProvisionable ==
    \A i \in 1..Len(prov.hist) :
        LET h == prov.hist[i]
        IN (chk.pc = "done" /\ ~chk.raised /\ h.path = <<>>) =>
              /\ \A j \in 1..Len(h.log) : h.log[j].name # <<>>
              /\ h.raised = "none"

\* C36: in a CLI run nothing is done on the mail store or the mail sender
\* before _check_settings has accepted the configuration: until then, and for
\* good after a rejection, no session is opened, no folder is checked or
\* created and the run is not in categorize or filter_mails; a rejected run
\* ends with the error surfaced and the password erased.
C36_CheckBeforeAnyOperation ==
    /\ (chk.pc = "idle" \/ chk.raised) =>
          /\ batch.live = 0
          /\ ~batch.account
          /\ prov.hist = <<>>
          /\ batch.pc \in {"check", "handle", "ended"}
    /\ (chk.raised /\ batch.pc = "ended") =>
          /\ batch.passwd = <<>>
          /\ batch.surfaced = "Exception"

\* C36 witness: a run on a configuration with a port that is no number and
\* neither filter tag nor filtered folder has ended.
C36_Witness ==
    /\ chk.raised /\ Len(chk.error_list) = 2
    /\ batch.pc = "ended" /\ batch.passwd = <<>> /\ prov.hist = <<>>

-----------------------------------------------------------------------------
(* The event loop of launch_gui: starting and stopping the analysis, the
   password prompt, and the batch of an active analysis *)

\* What the user does with one password prompt: OK on an empty field, OK on
\* a password, Cancel.
PromptAnswers == {"empty", "text", "cancel"}

RECURSIVE PromptLoop(_, _, _)
\* "while passwd is not None and len(passwd) == 0" from the i-th prompt on;
\* the result is None or the buffer.
PromptLoop(passwd, answers, i) ==
    IF passwd.is_none \/ Len(passwd.buf) # 0 \/ i > Len(answers)
    THEN passwd
    ELSE IF answers[i] = "cancel"
    THEN PromptLoop([is_none |-> TRUE, buf |-> passwd.buf], answers, i + 1)
    ELSE PromptLoop([is_none |-> FALSE,
                     buf |-> passwd.buf \o (IF answers[i] = "text" THEN <<"p", "w">>
                                            ELSE <<>>)],
                    answers, i + 1)

\* The prompts of one click end with a password or with Cancel.
EndsPrompting(passwd, answers) ==
    LET r == PromptLoop(passwd, answers, 1) IN r.is_none \/ Len(r.buf) # 0

\* A bug: stopping the analysis keeps the password.
GuiStopKeepsPassword ==
    /\ batch.driver = "gui"
    /\ batch.pc \in {"waiting", "inactive"}
    /\ batch.active
    /\ batch' = [batch EXCEPT !.active = FALSE, !.pc = "inactive"]
    /\ UNCHANGED <<conf, inbox_exists, builtin, chk, norm, prov, store, uidnext, catVars,
                   fmVars>>

\* Event -LAUNCH_AND_STOP- while the analysis is active
GuiStop ==
    /\ batch.driver = "gui"
    /\ batch.pc \in {"waiting", "inactive"}
    /\ batch.active
    /\ batch' = [batch EXCEPT !.active = FALSE, !.pc = "inactive",
                              !.passwd = SecurelyErase(@)]
    /\ UNCHANGED <<conf, inbox_exists, builtin, chk, norm, prov, store, uidnext, catVars,
                   fmVars>>

\* Event -LAUNCH_AND_STOP- while no analysis is active: _check_settings, the
\* password prompts, then the activation or the erasure after Cancel.
GuiStart ==
    /\ batch.driver = "gui"
    /\ batch.pc \in {"waiting", "inactive"}
    /\ ~batch.active
    /\ \E settings_ok \in BOOLEAN, answers \in SeqsUpTo(PromptAnswers, 2) :
          /\ EndsPrompting([is_none |-> FALSE, buf |-> batch.passwd], answers)
          /\ LET passwd == PromptLoop([is_none |-> FALSE, buf |-> batch.passwd],
                                      answers, 1)
             IN batch' =
                  IF ~settings_ok
                  THEN [batch EXCEPT !.surfaced = "popup"]
                  ELSE IF ~passwd.is_none
                  THEN [batch EXCEPT !.active = TRUE, !.pc = "waiting",
                                     !.passwd = passwd.buf, !.surfaced = "none"]
                  ELSE [batch EXCEPT !.passwd = SecurelyErase(passwd.buf),
                                     !.surfaced = "none"]
    /\ UNCHANGED <<conf, inbox_exists, builtin, chk, norm, prov, store, uidnext, catVars,
                   fmVars>>

\* Event None: the window is closed and the loop is left.
GuiExit ==
    /\ batch.driver = "gui"
    /\ batch.pc \in {"waiting", "inactive"}
    /\ batch' = [batch EXCEPT !.pc = "closed"]
    /\ UNCHANGED <<conf, inbox_exists, builtin, chk, norm, prov, store, uidnext, catVars,
                   fmVars>>

\* launch_gui before the event loop: no analysis, an empty password buffer.
InitGui ==
    /\ \E policy \in Policies, ex \in SUBSET {<<"P">>, <<"F">>, <<"N">>} :
          prov = [exists |-> ex, policy |-> policy,
                  mem |-> <<<<"P">>, <<"F">>, <<"N">>>>,
                  disk |-> <<<<"P">>, <<"F">>, <<"N">>>>,
                  internal |-> TRUE, hist |-> <<>>]
    /\ batch = [driver |-> "gui", pc |-> "inactive", passwd |-> <<>>,
                account |-> FALSE, live |-> 0, exc |-> "none", surfaced |-> "none",
                k |-> 1, paths |-> <<>>, runs |-> 1, settings_ok |-> TRUE,
                active |-> FALSE]
    /\ chk = NoChk
    /\ norm = NoNorm
    /\ conf = [threshold |-> 60, use_builtin |-> FALSE, filter_tag |-> <<>>,
               filtered_folder |-> FILTERED, autoresponse |-> ""]
    /\ store = [f \in Folders |-> <<>>]
    /\ uidnext = [f \in Folders |-> 1]
    /\ inbox_exists = TRUE
    /\ builtin = [ex |-> <<>>, negex |-> <<>>]
    /\ cpc = "idle"
    /\ ci = 1
    /\ cat_mails = <<>>
    /\ embs = [ex |-> <<>>, negex |-> <<>>, mails |-> <<>>]
    /\ filtered_mails = <<>>
    /\ cmps = <<>>
    /\ fpc = "idle"
    /\ fi = 1
    /\ sent = <<>>
    /\ calls = <<>>

NextGui ==
    \/ GuiStart \/ GuiStop \/ GuiExit
    \/ NextInterval \/ Login \/ Provision
    \/ BatchCategorize \/ BatchFilter \/ Handle

SpecGui == InitGui /\ [][NextGui]_vars

\* main_window.read is about to be called: at the head of the loop, and in
\* the batch before categorize and before filter_mails.
AtEventRead == batch.pc \in {"waiting", "inactive", "categorize", "filter"}

\* C34: wherever the GUI reads the next event, the analysis is active if and
\* only if the password buffer is not empty.
C34_ActiveIffPassword ==
    AtEventRead => (batch.active <=> batch.passwd # <<>>)

\* C34 witness: the analysis was started with a password, its batch ended
\* with a caught error, and the loop is back at reading events.
C34_Witness ==
    /\ batch.pc = "inactive" /\ batch.runs = 2 /\ batch.surfaced = "popup"
    /\ batch.exc = "MailServerError"
    /\ ~batch.active /\ batch.passwd = <<>>

-----------------------------------------------------------------------------
(* categorize under different thresholds *)

\* The candidate is returned when the classification loop runs with threshold t.
ReturnedAt(mail, t) == PosScan(mail, mail.vec, embs.ex, embs.negex, t, 1).app # <<>>

\* C35 as claimed: every candidate categorize returns is also returned at
\* every lower threshold.
C35_RaisingNeverAddsMatch ==
    cpc = "done" =>
        \A t1 \in Thresholds, k \in 1..Len(cat_mails) :
            (t1 < Threshold /\ cat_mails[k] \in Range(filtered_mails)) =>
                ReturnedAt(cat_mails[k], t1)

\* C35: every candidate categorize returns is also returned at every lower
\* threshold that no negative exemplar's similarity to it exceeds.
C35_RaisingAddsOnlyByNegatives ==
    cpc = "done" =>
        \A t1 \in Thresholds, k \in 1..Len(cat_mails) :
            (/\ t1 < Threshold
             /\ cat_mails[k] \in Range(filtered_mails)
             /\ \A e \in Range(embs.negex) : ~(Inner(cat_mails[k].vec, e) > t1)) =>
                ReturnedAt(cat_mails[k], t1)

\* C35 witness: a candidate returned at threshold 0.55 with a negative
\* exemplar of similarity 0, which stays below the lower threshold 0 as well.
C35_Witness ==
    /\ cpc = "done" /\ Threshold = 55
    /\ embs.negex = << <<0, 10>> >>
    /\ \E k \in 1..Len(cat_mails) :
          /\ cat_mails[k].vec = <<10, 0>>
          /\ cat_mails[k] \in Range(filtered_mails)
          /\ ReturnedAt(cat_mails[k], 0)

-----------------------------------------------------------------------------
(* What a batch leaves alone *)

\* C37: no step of categorize changes the mail store, no step at all changes
\* a message of the example folders, and every candidate that categorize did
\* not return stays in the inbox as it was fetched: unseen, with its subject.
C37_ClassificationFrame ==
    [][/\ (cpc # "done" \/ cpc' # "done") => store' = store
       /\ store'[EXAMPLES] = store[EXAMPLES]
       /\ store'[NEGEXAMPLES] = store[NEGEXAMPLES]
       /\ cpc' = "done" =>
             \A k \in 1..Len(cat_mails') :
                 cat_mails'[k] \notin Range(filtered_mails') =>
                     /\ SEEN \notin cat_mails'[k].flags
                     /\ cat_mails'[k] \in Range(store'[INBOX])]_vars

\* C37 witness: a complete batch over a matched and an unmatched candidate,
\* with a positive and a negative example in their folders.
C37_Witness ==
    /\ fpc = "done"
    /\ Len(cat_mails) = 2 /\ Len(filtered_mails) = 1
    /\ store[EXAMPLES] # <<>> /\ store[NEGEXAMPLES] # <<>>
    /\ \E k \in 1..2 : cat_mails[k] \in Range(store[INBOX])

\* C38: with an empty matched list no step of filter_mails changes a message,
\* subject or flag of any folder, none sends an auto-response and none
\* appends a clone.
C38_EmptyMatchNoEffect ==
    [][filtered_mails = <<>> =>
          /\ store' = store
          /\ sent' = sent
          /\ \A i \in 1..Len(calls') : calls'[i].op \notin {"append", "send"}]_vars

\* C38 witness: move mode with auto-response has run through on an inbox
\* whose two unseen mails are both unmatched.
C38_Witness ==
    /\ fpc = "done" /\ ~TagMode /\ AutoResponse
    /\ filtered_mails = <<>> /\ Len(cat_mails) = 2
    /\ Len(calls) = 4

====
